---- MODULE Spec2Model ----
(***************************************************************************)
(* TuyaDevice (the session state machine of tuyapi): connect, the v3.4/3.5 *)
(* session-key handshake, get / refresh / set, the set queue, _send with   *)
(* its retries, the heartbeat, the inbound packet dispatch and disconnect. *)
(*                                                                         *)
(* One step of the model is one run of the JavaScript event loop: a call   *)
(* made by the application, a socket event or a timer callback, together   *)
(* with the promise continuations (microtasks) that run before the next    *)
(* event.  Every method is an operator from the instance's state (a record *)
(* of its fields) to the state it leaves, so a method that calls another   *)
(* method applies that operator.                                           *)
(***************************************************************************)
EXTENDS Integers, Sequences, FiniteSets, TLC

\* Bounds of the exploration.
MaxReq == 2        \* get / refresh / set calls made in one behaviour
MaxSeq == 3        \* largest value _currentSequenceN takes
MaxAtt == 2        \* attempts one _send makes (connect failures it meets + 1)
MaxFinds == 2      \* find() calls made in one behaviour

\* retries: 5 in _send's pRetry options.
Retries == 5

\* options.version, as the string the constructor stores.
Versions == {"3.3", "3.4", "3.5"}

\* The payloads a device packet can carry, by what _packetHandler tests:
\* false (empty payload), an object whose dps holds index 1, an object whose
\* dps lacks index 1.
Payloads == {"false", "dps1", "dpsNo1"}

\* The command codes _packetHandler tells apart.
InboundCmds == {"HEART_BEAT", "CONTROL", "CONTROL_NEW", "STATUS", "DP_QUERY",
                "DP_QUERY_NEW", "DP_REFRESH", "SESS_KEY_NEG_RES"}

VARIABLES
    version,                \* this.device.version
    issueGetOnConnect,      \* this.globalOptions.issueGetOnConnect
    issueRefreshOnConnect,  \* this.globalOptions.issueRefreshOnConnect
    _connected,             \* this._connected
    connectPromise,         \* TRUE while this.connectPromise exists (pending)
    client,                 \* this.client: "none", "connecting", "open", "destroyed"
    connTimer,              \* the socket's connect timeout is armed
    _currentSequenceN,      \* this._currentSequenceN
    _resolvers,             \* this._resolvers: set of [key, req]
    _setResolver,           \* this._setResolver: the set it resolves, 0 = undefined
    _setResolveAllowGet,    \* this._setResolveAllowGet === true
    _expectRefreshResponseForSequenceN,  \* 0 = undefined
    _setQueue,              \* tasks waiting in this._setQueue
    setRunning,             \* the task this._setQueue is running, 0 = idle
    _pingPongInterval,      \* the heartbeat interval is armed
    _pingPongTimeout,       \* "null", "armed" (live timer), "stale" (handle of a
                            \* timer that fired or was cleared)
    sessionKey,             \* the cipher holds a session key
    quietPeer,              \* the environment: the peer of a socket that the
                            \* instance has replaced stays silent on it for
                            \* ever (sends nothing, never closes or resets it)
    leaked,                 \* an earlier socket that was replaced while open
                            \* and still has its listeners: seq is the sequence
                            \* number of the START written on it (0 = no such
                            \* socket), keyed holds while this._tmpLocalKey is
                            \* still the nonce of that START; kept only when
                            \* the peer may act on such a socket
    reqs,                   \* every get / refresh / set call made so far
    waiters,                \* _send attempts waiting on connectPromise, in order
    written,                \* frames written to the socket in use, in order
    setWrites,              \* the sets whose frame was written, in write order
    discCount,              \* `disconnected` events since the last `connected`
    phasePonged,            \* a HEART_BEAT reply arrived in this Connected phase
    device,                 \* this.device: id, ip, gwID, productKey
    foundDevices,           \* this.foundDevices
    _dpRefreshIds,          \* this._dpRefreshIds: "all", "low" or "high"
    finds,                  \* every find() call made so far
    options,                \* the argument of new TuyaDevice(...)
    built,                  \* "no": the constructor has not run, "thrown":
                            \* it threw, "ok": it returned the instance
    codec,                  \* a MessageParser at work: its options, the
                            \* buffer it encoded and the packets it parsed
    tog                     \* an application calling toggle() and the device
                            \* it talks to: where the call stands, the values
                            \* it read and sent, the device's data point

vars == <<version, issueGetOnConnect, issueRefreshOnConnect, _connected,
          connectPromise, client, connTimer, _currentSequenceN, _resolvers,
          _setResolver, _setResolveAllowGet, _expectRefreshResponseForSequenceN,
          _setQueue, setRunning, _pingPongInterval, _pingPongTimeout, sessionKey,
          quietPeer, leaked,
          reqs, waiters, written, setWrites, discCount, phasePonged,
          device, foundDevices, _dpRefreshIds, finds, options, built, codec, tog>>

\* Everything but the parser at work.
instance == <<tog, version, issueGetOnConnect, issueRefreshOnConnect, _connected,
              connectPromise, client, connTimer, _currentSequenceN, _resolvers,
              _setResolver, _setResolveAllowGet, _expectRefreshResponseForSequenceN,
              _setQueue, setRunning, _pingPongInterval, _pingPongTimeout, sessionKey,
              quietPeer, leaked,
              reqs, waiters, written, setWrites, discCount, phasePonged,
              device, foundDevices, _dpRefreshIds, finds, options, built>>

\* The instance as a record.  Its field `emitted` collects the events a
\* handler emits, in order, while it runs, and `sockets` counts the sockets it
\* creates (new net.Socket()); both start empty in every step.
S == [version |-> version,
      issueGetOnConnect |-> issueGetOnConnect,
      issueRefreshOnConnect |-> issueRefreshOnConnect,
      _connected |-> _connected,
      connectPromise |-> connectPromise,
      client |-> client,
      connTimer |-> connTimer,
      _currentSequenceN |-> _currentSequenceN,
      _resolvers |-> _resolvers,
      _setResolver |-> _setResolver,
      _setResolveAllowGet |-> _setResolveAllowGet,
      _expectRefreshResponseForSequenceN |-> _expectRefreshResponseForSequenceN,
      _setQueue |-> _setQueue,
      setRunning |-> setRunning,
      _pingPongInterval |-> _pingPongInterval,
      _pingPongTimeout |-> _pingPongTimeout,
      sessionKey |-> sessionKey,
      quietPeer |-> quietPeer,
      leaked |-> leaked,
      reqs |-> reqs,
      waiters |-> waiters,
      written |-> written,
      setWrites |-> setWrites,
      emitted |-> <<>>,
      resolvedWith |-> <<>>,
      sockets |-> 0,
      thrown |-> FALSE,
      discCount |-> discCount,
      phasePonged |-> phasePonged,
      device |-> device,
      foundDevices |-> foundDevices,
      _dpRefreshIds |-> _dpRefreshIds,
      finds |-> finds,
      built |-> built]

\* The instance's fields after a step that ends in state n.
Assign(n) ==
    /\ version' = n.version
    /\ issueGetOnConnect' = n.issueGetOnConnect
    /\ issueRefreshOnConnect' = n.issueRefreshOnConnect
    /\ _connected' = n._connected
    /\ connectPromise' = n.connectPromise
    /\ client' = n.client
    /\ connTimer' = n.connTimer
    /\ _currentSequenceN' = n._currentSequenceN
    /\ _resolvers' = n._resolvers
    /\ _setResolver' = n._setResolver
    /\ _setResolveAllowGet' = n._setResolveAllowGet
    /\ _expectRefreshResponseForSequenceN' = n._expectRefreshResponseForSequenceN
    /\ _setQueue' = n._setQueue
    /\ setRunning' = n.setRunning
    /\ _pingPongInterval' = n._pingPongInterval
    /\ _pingPongTimeout' = n._pingPongTimeout
    /\ sessionKey' = n.sessionKey
    /\ quietPeer' = n.quietPeer
    /\ leaked' = n.leaked
    /\ reqs' = n.reqs
    /\ waiters' = n.waiters
    /\ written' = n.written
    /\ setWrites' = n.setWrites
    /\ discCount' = n.discCount
    /\ phasePonged' = n.phasePonged
    /\ device' = n.device
    /\ foundDevices' = n.foundDevices
    /\ _dpRefreshIds' = n._dpRefreshIds
    /\ finds' = n.finds
    /\ built' = n.built
    /\ UNCHANGED <<options, codec>>

\* The step ends in state n (kept inside the bounds of the exploration).
Commit(n) ==
    /\ n._currentSequenceN <= MaxSeq
    /\ Len(n.reqs) <= MaxReq
    /\ \A i \in 1..Len(n.reqs) : n.reqs[i].att <= MaxAtt
    /\ Len(n.finds) <= MaxFinds
    /\ Assign(n)
    /\ UNCHANGED tog

----------------------------------------------------------------------------
\* Helpers

\* this.emit(e)
emit(s, e) == [s EXCEPT !.emitted = Append(@, e)]

\* Versions that negotiate a session key.
NeedsHandshake(v) == v = "3.4" \/ v = "3.5"

\* commandByte of get (line 150) and of set (line 398).
QueryCmd(v) == IF NeedsHandshake(v) THEN "DP_QUERY_NEW" ELSE "DP_QUERY"
ControlCmd(v) == IF NeedsHandshake(v) THEN "CONTROL_NEW" ELSE "CONTROL"

\* A call of get / refresh / set: the frame it built (seq, cmd), the key its
\* _send registers its resolver under, the state of its own promise (p), of
\* its _send (send), the attempts pRetry has made (att), its pTimeout timer
\* (tmr) and set's resolvedOrRejected flag (ror).
NewReq(kind, cmd, n, wait) ==
    [kind |-> kind, cmd |-> cmd, seq |-> n, key |-> 0, wait |-> wait,
     getData |-> FALSE, auto |-> FALSE, p |-> "pending", send |-> "idle",
     att |-> 0, tmr |-> FALSE, ror |-> FALSE, enc |-> "local"]

\* TuyaCipher.getKey(): the session key when one is set, else the local key.
getKey(s) == IF s.sessionKey THEN "session" ELSE "local"

\* parser.encode(...) in get / refresh / set: the frame is encrypted and
\* authenticated, when the call builds it, under the key the cipher returns.
encode(s, kind, cmd, n, wait) ==
    [NewReq(kind, cmd, n, wait) EXCEPT !.enc = getKey(s)]

\* The key of frames encoded under a session key that is being replaced or
\* cleared: no later session negotiates it again (both nonces are random).
outdated(k) == IF k = "session" THEN "old" ELSE k

\* TuyaCipher.setSessionKey(k)
setSessionKey(s, k) ==
    [s EXCEPT !.sessionKey = k,
              !.reqs = [i \in DOMAIN @ |-> [@[i] EXCEPT !.enc = outdated(@)]],
              !.written = [j \in DOMAIN @ |-> [@[j] EXCEPT !.enc = outdated(@)]]]

\* delete this._resolvers[k]
deleteResolver(s, k) == [s EXCEPT !._resolvers = {e \in @ : e.key # k}]

\* k in this._resolvers
hasResolver(s, k) == \E e \in s._resolvers : e.key = k

----------------------------------------------------------------------------
\* connect and _send

\* isConnected()
isConnected(s) == s._connected

\* connect(): resolved at once when connected, the pending promise when a
\* connect is in flight, else (newSocket) a new deferred promise and a new
\* socket with its connect timeout armed.  The caller reads isConnected(s) of
\* the state before the call to know which promise it got.
\* The sequence number of the SESS_KEY_NEG_START written on this.client, 0 if
\* none was written.
startSeq(s) ==
    LET ks == {k \in 1..Len(s.written) : s.written[k].cmd = "SESS_KEY_NEG_START"}
    IN IF ks = {} THEN 0 ELSE s.written[CHOOSE k \in ks : \A j \in ks : j <= k].seq

\* No earlier socket is open.
NoLeak == [seq |-> 0, keyed |-> FALSE]

\* this.client = new net.Socket(): a socket that is open when it is replaced
\* is not destroyed and keeps its listeners; the nonce in _tmpLocalKey stays
\* until the new socket's 'connect'.  The replaced socket is remembered when
\* its peer may still act on it.
newSocket(s) ==
    [s EXCEPT !.connectPromise = TRUE,
              !.leaked = IF ~s.quietPeer /\ s.client = "open" /\ startSeq(s) # 0
                         THEN [seq |-> startSeq(s), keyed |-> TRUE] ELSE @,
              !.client = "connecting",
              !.connTimer = TRUE,
              !.written = <<>>,
              !.sockets = @ + 1]

\* connect() without the test for a connect in flight (the variant C11 is
\* tried against).
connectNoReuse(s) == IF isConnected(s) THEN s ELSE newSocket(s)

connect(s) ==
    IF isConnected(s) THEN s
    ELSE IF s.connectPromise THEN s
    ELSE newSocket(s)

\* The continuation of connect().then in _send: this.client.write(buffer) and
\* this._resolvers[sequenceNo] = resolve.
writeFrame(s, i) ==
    LET r == s.reqs[i] IN
    [s EXCEPT !.written = Append(@, [seq |-> r.seq, cmd |-> r.cmd, req |-> i,
                                     enc |-> r.enc]),
              !.setWrites = IF r.kind = "set" THEN Append(@, i) ELSE @,
              !._resolvers = {e \in @ : e.key # r.key} \cup {[key |-> r.key, req |-> i]},
              !.reqs[i].send = "written",
              !.reqs[i].att = 0]

\* One attempt of pRetry's task: connect(), then write.  When the instance is
\* connected the promise is already resolved and the write runs in the
\* microtask that follows; otherwise the attempt waits on connectPromise.
attempt(s, i) ==
    LET s1 == [connect(s) EXCEPT !.reqs[i].att = @ + 1] IN
    IF isConnected(s) THEN writeFrame(s1, i)
    ELSE [s1 EXCEPT !.waiters = Append(@, i), !.reqs[i].send = "conn"]

\* _send(buffer): sequenceNo is read from the counter when _send is called.
_send(s, i) == attempt([s EXCEPT !.reqs[i].key = s._currentSequenceN], i)

\* connectPromise was resolved: the waiting attempts write, in the order in
\* which they called connect().
RECURSIVE writeAll(_, _)
writeAll(s, ws) ==
    IF ws = <<>> THEN s ELSE writeAll(writeFrame(s, Head(ws)), Tail(ws))

----------------------------------------------------------------------------
\* The set queue (PQueue, concurrency 1) and set's task

\* this._setQueue runs its next task when none is running.  The task is the
\* executor of set's promise under pTimeout: it throws when a set that waits
\* for its response finds the resolver slot taken; else it bumps the counter
\* for v3.5, calls _send, and either takes the slot (and its timer runs) or
\* resolves at once, in which case the queue goes on to the task after it.
\* A queue that never counts its running task, i.e. without a concurrency
\* limit (the variant C3 is tried against).
queueNeverBusy(s) == FALSE

\* new PQueue({concurrency: 1}): the queue holds back its next task while one
\* task is running.
queueBusy(s) == s.setRunning # 0

RECURSIVE startNext(_)
startNext(s) ==
    IF queueBusy(s) \/ s._setQueue = <<>> THEN s
    ELSE
      LET i  == Head(s._setQueue)
          r  == s.reqs[i]
          s0 == [s EXCEPT !._setQueue = Tail(@)]
      IN IF r.wait /\ s._setResolver # 0
         THEN startNext([s0 EXCEPT !.reqs[i].p = "rejected"])
         ELSE
           LET s1 == IF s.version = "3.5"
                     THEN [s0 EXCEPT !._currentSequenceN = @ + 1]
                     ELSE s0
               s2 == _send(s1, i)
           IN IF r.wait
              THEN [s2 EXCEPT !._setResolver = i,
                              !._setResolveAllowGet = r.getData,
                              !.reqs[i].tmr = TRUE,
                              !.setRunning = i]
              ELSE startNext([s2 EXCEPT !.reqs[i].ror = TRUE,
                                        !.reqs[i].p = "resolved"])

\* The running task's promise settled: pTimeout clears its timer and the
\* queue is free for the next task.
taskSettled(s, i, how) ==
    [s EXCEPT !.reqs[i].ror = TRUE,
              !.reqs[i].p = how,
              !.reqs[i].tmr = FALSE,
              !.setRunning = IF @ = i THEN 0 ELSE @]

\* A resolver that drops the data it is called with and settles nothing.
callSetResolverDropped(s, data) == s

\* this._setResolver(data): resolves the set that took the slot with data,
\* once.
callSetResolver(s, data) ==
    LET i == s._setResolver IN
    IF s.reqs[i].ror THEN s
    ELSE [taskSettled(s, i, "resolved")
            EXCEPT !.resolvedWith = Append(@, [req |-> i, data |-> data])]

\* pTimeout's fallback of set: the slot and the entry under the set's own
\* sequenceN are cleared, `error` is emitted, the set is rejected.
setTimedOut(s, i) ==
    LET r  == s.reqs[i]
        s1 == emit([deleteResolver(s, r.seq)
                      EXCEPT !._setResolver = 0,
                             !._setResolveAllowGet = FALSE,
                             !._expectRefreshResponseForSequenceN = 0],
                   "error")
    IN startNext(taskSettled(s1, i, IF r.ror THEN "resolved" ELSE "rejected"))

\* set(options) past its argument check: the frame is built and numbered
\* when set is called, the task is queued, and the queue starts it at once
\* when it is idle.
queueSetWith(s, wait, getData, auto) ==
    LET n == s._currentSequenceN + 1
        i == Len(s.reqs) + 1
    IN startNext([s EXCEPT !._currentSequenceN = n,
                           !.reqs = Append(@, [encode(s, "set", ControlCmd(s.version), n, wait)
                                                 EXCEPT !.getData = getData,
                                                        !.auto = auto]),
                           !._setQueue = Append(@, i)])

\* set with values to send: isSetCallToGetData is false.
queueSet(s, wait) == queueSetWith(s, wait, FALSE, FALSE)

\* The arguments of set, by what its check reads: no argument, an object
\* without entries, an object with entries (wait: shouldWaitForResponse).
NoArgument == [args |-> "undefined", wait |-> TRUE]
EmptyOptions == [args |-> "empty", wait |-> TRUE]
SetOptions ==
    {NoArgument, EmptyOptions} \cup [args : {"entries"}, wait : BOOLEAN]

\* set without the check of its argument (the variant C21 is tried against).
setUnchecked(s, o) == queueSet(s, o.wait)

\* set(options): throws a TypeError when options is undefined or has no
\* entries, before anything else.
set(s, o) ==
    IF o.args = "undefined" \/ o.args = "empty"
    THEN [s EXCEPT !.thrown = TRUE]
    ELSE queueSet(s, o.wait)

\* get's fallback: set({dps, set: null, isSetCallToGetData: true}), which
\* waits for its response.
getBySet(s, auto) == queueSetWith(s, TRUE, TRUE, auto)

\* A get that queries whatever the version is (the variant C37 is tried
\* against).
getByQuery(s, auto) ==
    LET n == s._currentSequenceN + 1
        i == Len(s.reqs) + 1
    IN _send([s EXCEPT !._currentSequenceN = n,
                       !.reqs = Append(@, [encode(s, "get", QueryCmd(s.version), n, TRUE)
                                             EXCEPT !.auto = auto])],
             i)

\* get(options): the frame is built and numbered; it is sent at once unless
\* the version is 3.2, for which get goes on to its fallback without sending.
get(s, auto) ==
    LET n == s._currentSequenceN + 1
        i == Len(s.reqs) + 1
    IN IF s.version = "3.2"
       THEN getBySet([s EXCEPT !._currentSequenceN = n], auto)
       ELSE _send([s EXCEPT !._currentSequenceN = n,
                            !.reqs = Append(@, [encode(s, "get", QueryCmd(s.version), n, TRUE)
                                                  EXCEPT !.auto = auto])],
                  i)

\* refresh(options)
refresh(s, auto) ==
    LET n == s._currentSequenceN + 1
        i == Len(s.reqs) + 1
    IN _send([s EXCEPT !._currentSequenceN = n,
                       !._expectRefreshResponseForSequenceN = n,
                       !.reqs = Append(@, [encode(s, "refresh", "DP_REFRESH", n, TRUE)
                                             EXCEPT !.auto = auto])],
             i)

\* _send's promise was rejected (pRetry gave up).  get and refresh reject
\* their caller (and _finishConnect's catch emits `error` for the calls it
\* made); set rejects only if it waits for a response and has not settled.
sendFailed(s, i) ==
    LET r  == s.reqs[i]
        s1 == [s EXCEPT !.reqs[i].send = "failed"]
    IN IF r.kind = "set"
       THEN IF r.wait /\ ~r.ror
            THEN startNext(taskSettled(s1, i, "rejected"))
            ELSE s1
       ELSE IF r.p # "pending" THEN s1
            ELSE LET s2 == [s1 EXCEPT !.reqs[i].p = "rejected"]
                 IN IF r.auto THEN emit(s2, "error") ELSE s2

\* A _send without retries (the variant C35 is tried against).
failAttemptOnce(s, i) == sendFailed(s, i)

\* An attempt's promise was rejected: pRetry schedules the next attempt after
\* its backoff while retries are left, else _send fails.
failAttempt(s, i) ==
    IF s.reqs[i].att <= Retries
    THEN [s EXCEPT !.reqs[i].send = "backoff"]
    ELSE sendFailed(s, i)

\* connectPromise was rejected: every attempt waiting on it fails, in order.
RECURSIVE failAll(_, _)
failAll(s, ws) ==
    IF ws = <<>> THEN s ELSE failAll(failAttempt(s, Head(ws)), Tail(ws))

\* this._resolvers[k](payload): _send's promise resolves; get and refresh
\* then resolve their caller, set ignores the value.
callResolver(s, k) ==
    LET i == (CHOOSE e \in s._resolvers : e.key = k).req
        r == s.reqs[i]
    IN IF r.send # "written" THEN s
       ELSE [s EXCEPT !.reqs[i].send = "done",
                      !.reqs[i].p = IF r.kind # "set" /\ @ = "pending"
                                    THEN "resolved" ELSE @]

----------------------------------------------------------------------------
\* Session: _finishConnect, disconnect, the heartbeat, the packet dispatch

\* _finishConnect(): Connected, `connected` emitted, the heartbeat interval
\* armed, the on-connect refresh and get issued, then connectPromise resolved
\* (the on-connect calls write before the attempts that waited on it).
_finishConnect(s) ==
    LET s1 == emit([s EXCEPT !._connected = TRUE,
                             !._pingPongInterval = TRUE,
                             !.discCount = 0,
                             !.phasePonged = FALSE],
                   "connected")
        s2 == IF s1.issueRefreshOnConnect THEN refresh(s1, TRUE) ELSE s1
        s3 == IF s2.issueGetOnConnect THEN get(s2, TRUE) ELSE s2
    IN IF s3.connectPromise
       THEN writeAll([s3 EXCEPT !.connectPromise = FALSE,
                                !.waiters = <<>>],
                     s3.waiters)
       ELSE s3

\* disconnect() past its guard: the session key, the interval and the pong
\* timer are cleared (the timer's handle is kept), the socket is destroyed and
\* `disconnected` is emitted.
teardown(s) ==
    emit([setSessionKey(s, FALSE)
            EXCEPT !._connected = FALSE,
                   !._pingPongInterval = FALSE,
                   !._pingPongTimeout = IF @ = "armed" THEN "stale" ELSE @,
                   !.client = IF @ = "none" THEN @ ELSE "destroyed",
                   !.connTimer = FALSE,
                   !.written = <<>>,
                   !.discCount = @ + 1,
                   !.phasePonged = FALSE],
         "disconnected")

\* disconnect() without its guard on this._connected (the variant C7 is tried
\* against).
disconnectUnguarded(s) == teardown(s)

\* disconnect(): nothing when not connected.
disconnect(s) == IF ~s._connected THEN s ELSE teardown(s)

\* _sendPing(): the heartbeat frame is numbered, the pong timer is armed only
\* if this._pingPongTimeout is null, and the frame is written.
_sendPing(s) ==
    LET n == s._currentSequenceN + 1 IN
    [s EXCEPT !._currentSequenceN = n,
              !._pingPongTimeout = IF @ = "null" THEN "armed" ELSE @,
              !.written = Append(@, [seq |-> n, cmd |-> "HEART_BEAT", req |-> 0,
                                     enc |-> getKey(s)])]

\* The rejection of connectPromise: deleted, and the attempts that waited on
\* it fail once the handler has returned.
rejectConnect(s) ==
    IF s.connectPromise
    THEN [s EXCEPT !.connectPromise = FALSE, !.waiters = <<>>]
    ELSE s

\* _packetHandler, SESS_KEY_NEG_RES: ignored when no connect is in flight;
\* else the counter is set to the packet's sequenceN - 1, and then either the
\* HMAC differs (connect rejected, `error`) or SESS_KEY_NEG_FINISH is written,
\* the session key installed and _finishConnect called.
sessKeyNegRes(s, pkt) ==
    IF ~s.connectPromise THEN s
    ELSE
      LET s1 == IF NeedsHandshake(s.version)
                THEN [s EXCEPT !._currentSequenceN = pkt.seq - 1]
                ELSE s
      IN IF ~pkt.hmacOk
         THEN failAll(emit(rejectConnect(s1), "error"), s1.waiters)
         ELSE
           LET n == s1._currentSequenceN + 1 IN
           _finishConnect(setSessionKey(
             [s1 EXCEPT !._currentSequenceN = n,
                        !.written = Append(@, [seq |-> n,
                                               cmd |-> "SESS_KEY_NEG_FINISH",
                                               req |-> 0,
                                               enc |-> getKey(s1)])],
             TRUE))

\* The four places of _packetHandler that resolve the set in the slot: the
\* resolver is called, the slot cleared, the entry under the packet's
\* sequenceN deleted.
resolveSetBy(s, pkt) ==
    [deleteResolver(callSetResolver(s, pkt.payload), pkt.seq)
       EXCEPT !._setResolver = 0,
              !._setResolveAllowGet = FALSE,
              !._expectRefreshResponseForSequenceN = 0]

\* The places that resolve the entry under key k.
resolveEntry(s, k) ==
    [deleteResolver(callResolver(s, k), k)
       EXCEPT !._expectRefreshResponseForSequenceN = 0]

\* An acknowledgement handled as any other packet: it resolves the entry
\* under its sequenceN (the variant C32 is tried against).
setAckResolves(s, pkt) ==
    IF hasResolver(s, pkt.seq) THEN resolveEntry(s, pkt.seq) ELSE s

\* 'Got SET ack.': CONTROL / CONTROL_NEW with an empty payload returns at
\* once.
setAck(s, pkt) == s

\* _packetHandler(packet)
_packetHandler(s, pkt) ==
    IF pkt.cmd = "SESS_KEY_NEG_RES" THEN sessKeyNegRes(s, pkt)
    ELSE IF pkt.cmd = "HEART_BEAT"
    THEN emit([s EXCEPT !._pingPongTimeout = "null", !.phasePonged = TRUE],
              "heartbeat")
    ELSE IF pkt.cmd \in {"CONTROL", "CONTROL_NEW"} /\ pkt.payload = "false"
    THEN setAck(s, pkt)
    ELSE IF pkt.cmd = "DP_REFRESH"
    THEN IF s._setResolver # 0 THEN resolveSetBy(s, pkt)
         ELSE IF hasResolver(s, pkt.seq) THEN resolveEntry(s, pkt.seq)
         ELSE IF /\ s._expectRefreshResponseForSequenceN # 0
                 /\ hasResolver(s, s._expectRefreshResponseForSequenceN)
         THEN resolveEntry(s, s._expectRefreshResponseForSequenceN)
         ELSE s
    ELSE
      LET s1 == IF pkt.cmd = "STATUS" /\ pkt.payload = "dpsNo1"
                THEN emit(s, "dp-refresh")
                ELSE emit(s, "data")
      IN IF pkt.cmd = "STATUS" /\ s1._setResolver # 0
         THEN resolveSetBy(s1, pkt)
         ELSE IF /\ pkt.cmd = "DP_QUERY"
                 /\ s1._setResolver # 0
                 /\ s1._setResolveAllowGet
         THEN resolveSetBy(s1, pkt)
         ELSE IF hasResolver(s1, pkt.seq) THEN resolveEntry(s1, pkt.seq)
         ELSE s1

----------------------------------------------------------------------------
\* The socket's listeners (registered in connect)

\* 'connect': the connect timeout is removed; v3.4/3.5 write
\* SESS_KEY_NEG_START and wait, the others finish connecting.
onConnect(s) ==
    LET s0 == [s EXCEPT !.connTimer = FALSE, !.client = "open"] IN
    IF NeedsHandshake(s.version)
    THEN LET n == s0._currentSequenceN + 1 IN
         [s0 EXCEPT !._currentSequenceN = n,
                    !.leaked.keyed = FALSE,
                    !.written = Append(@, [seq |-> n,
                                           cmd |-> "SESS_KEY_NEG_START",
                                           req |-> 0,
                                           enc |-> getKey(s0)])]
    ELSE _finishConnect(s0)

\* A socket without a 'close' listener (the variant C12 is tried against).
onCloseIgnored(s) == s

\* 'close': this.disconnect()
onClose(s) == disconnect(s)

\* The connect timeout: the socket is destroyed, `error` emitted, the connect
\* rejected; the attempts that waited fail, then the socket's 'close' fires.
onTimeout(s) ==
    LET s1 == emit([s EXCEPT !.client = "destroyed", !.connTimer = FALSE], "error")
    IN onClose(failAll(rejectConnect(s1), s1.waiters))

\* 'error': `error` emitted, the connect rejected if one is in flight and the
\* instance is not connected, the socket destroyed; then 'close' fires.
onError(s) ==
    LET s1 == emit(s, "error")
        rej == ~s1._connected /\ s1.connectPromise
        s2 == IF rej THEN rejectConnect(s1) ELSE s1
        s3 == [s2 EXCEPT !.client = "destroyed", !.connTimer = FALSE]
    IN onClose(failAll(s3, IF rej THEN s1.waiters ELSE <<>>))

\* 'data' with one parsed packet: _packetHandler, then the continuations of
\* the promises it settled.
onData(s, pkt) == startNext(_packetHandler(s, pkt))

\* The callback of the pong timer armed in _sendPing.  The timer is cleared
\* by every HEART_BEAT reply, which is also the only writer of _lastPingAt, so
\* when it fires _lastPingAt is older than the ping and disconnect() runs.
onPongTimeout(s) == disconnect([s EXCEPT !._pingPongTimeout = "stale"])

----------------------------------------------------------------------------
\* Construction and discovery (find)

\* JavaScript values, by what the constructor and find() read of them: the
\* type, the identity and the length.
Undefined == [t |-> "undefined", v |-> "", len |-> 0]
Str(v, n) == [t |-> "string", v |-> v, len |-> n]
EmptyStr == Str("", 0)
\* A number: not a string, no length.
Num == [t |-> "number", v |-> "7", len |-> 0]
\* A Buffer of 16 bytes: its length is 16, it is not a string.
Buf16 == [t |-> "object", v |-> "buffer", len |-> 16]

IdA == Str("idA", 20)
IdB == Str("idB", 20)
Ip1 == Str("ip1", 9)
Ip2 == Str("ip2", 9)
Key16 == Str("key", 16)

\* isValidString(input): typeof input === 'string' && input.length > 0
isValidString(x) == x.t = "string" /\ x.len > 0

\* A constructor that checks id and ip but not the key (the variant C20 is
\* tried against).
constructorAnyKey(o) ==
    IF ~(isValidString(o.id) \/ isValidString(o.ip))
    THEN [threw |-> TRUE, device |-> Undefined]
    ELSE [threw |-> FALSE,
          device |-> [id |-> o.id, ip |-> o.ip, gwID |-> o.id,
                      productKey |-> Undefined]]

\* new TuyaDevice({id, ip, key, gwID = id}): throws when neither id nor ip is
\* a valid string, and when key is not a valid string of length 16 (new
\* MessageParser then accepts the key); else the instance holds the options.
constructor(o) ==
    IF ~(isValidString(o.id) \/ isValidString(o.ip))
    THEN [threw |-> TRUE, device |-> Undefined]
    ELSE IF ~isValidString(o.key) \/ o.key.len # 16
    THEN [threw |-> TRUE, device |-> Undefined]
    ELSE [threw |-> FALSE,
          device |-> [id |-> o.id, ip |-> o.ip, gwID |-> o.id,
                      productKey |-> Undefined]]

\* this.device before the constructor has run.
NoDevice == [id |-> Undefined, ip |-> Undefined, gwID |-> Undefined,
             productKey |-> Undefined]

\* new TuyaDevice(o) as a step: the instance exists when nothing was thrown.
construct(s, o) ==
    IF constructor(o).threw THEN [s EXCEPT !.built = "thrown"]
    ELSE [s EXCEPT !.built = "ok", !.device = constructor(o).device]

\* The options the model constructs devices from.
OptionSets ==
    [id : {Undefined, EmptyStr, Num, IdA},
     ip : {Undefined, EmptyStr, Ip1},
     key : {Undefined, EmptyStr, Str("k15", 15), Key16, Str("k17", 17), Buf16}]

\* The options of the device of the session model: id, ip and key given.
FullOptions == [id |-> IdA, ip |-> Ip1, key |-> Key16]

\* A find() call: its mode, its two dgram sockets ("bound", "closed"; "none"
\* when find returned before creating them), the promise it returned
\* ("pending", "true", "list" with the array it resolved with, "rejected"),
\* and pTimeout's timer.
NewFind(all, sock, p) ==
    [all |-> all, listener |-> sock, listenerEncrypted |-> sock,
     p |-> p, list |-> <<>>, timer |-> (p = "pending")]

\* resolve / reject of find's promise: a settled promise stays as it is;
\* pTimeout clears its timer when the promise it wraps settles.
settle(s, i, p, list) ==
    IF s.finds[i].p # "pending" THEN s
    ELSE [s EXCEPT !.finds[i].p = p, !.finds[i].list = list,
                   !.finds[i].timer = FALSE]

\* listener.close(); listener.removeAllListeners(); and the same for
\* listenerEncrypted.
closeListeners(s, i) ==
    [s EXCEPT !.finds[i].listener = "closed",
              !.finds[i].listenerEncrypted = "closed"]

\* find({all}): true at once when id and ip are both valid strings; else two
\* sockets are bound and the promise is pending under pTimeout.
find(s, all) ==
    IF isValidString(s.device.id) /\ isValidString(s.device.ip)
    THEN [s EXCEPT !.finds = Append(@, NewFind(all, "none", "true"))]
    ELSE [s EXCEPT !.finds = Append(@, NewFind(all, "bound", "pending"))]

\* Broadcasts by what the two parsers make of them: "udp" parses under the
\* UDP key, "dev" only under the device's key, "text" parses to a payload
\* that is a string, "none" makes both parsers throw.
Parses == {"udp", "dev", "text", "none"}

\* The broadcasts the listeners receive: payload.gwId, payload.ip,
\* payload.version, and whether payload.dps has index 19; the fields of a
\* broadcast that yields no object payload are never read.
Broadcasts ==
    [parse : {"udp", "dev"}, gwId : {IdA, IdB}, ip : {Ip1, Ip2},
     version : {"3.3", "3.4"}, dps : {"no19", "has19"}]
    \cup [parse : {"text", "none"}, gwId : {IdA}, ip : {Ip1},
          version : {"3.3"}, dps : {"has19"}]

\* e.id === thisID && e.ip === thisIP for some e of this.foundDevices
known(s, m) ==
    \E k \in 1..Len(s.foundDevices) :
        s.foundDevices[k].id = m.gwId /\ s.foundDevices[k].ip = m.ip

\* broadcastHandler of find call i on message m.
broadcastHandler(s, i, m) ==
    IF m.parse = "none" THEN settle(s, i, "rejected", <<>>)
    ELSE IF m.parse = "text" THEN s
    ELSE
      LET s1 == [s EXCEPT !._dpRefreshIds =
                               IF m.dps = "no19" THEN "low" ELSE "high",
                          !.foundDevices =
                               IF known(s, m) THEN @
                               ELSE Append(@, [id |-> m.gwId, ip |-> m.ip])]
      IN IF ~s.finds[i].all /\ (s.device.id = m.gwId \/ s.device.ip = m.ip)
         THEN settle(closeListeners(
                       [s1 EXCEPT !.device = [id |-> m.gwId, ip |-> m.ip,
                                              gwID |-> m.gwId,
                                              productKey |-> Str("pk", 16)],
                                  !.version = m.version],
                       i),
                     i, "true", <<>>)
         ELSE s1

\* listener.on('error') and listenerEncrypted.on('error'): reject(err)
listenerError(s, i) == settle(s, i, "rejected", <<>>)

\* pTimeout's fallback: both sockets are closed; the found devices for `all`,
\* else the timeout error.
findTimeout(s, i) ==
    LET s1 == [closeListeners(s, i) EXCEPT !.finds[i].timer = FALSE] IN
    IF s.finds[i].all
    THEN [s1 EXCEPT !.finds[i].p = "list", !.finds[i].list = s.foundDevices]
    ELSE [s1 EXCEPT !.finds[i].p = "rejected"]

----------------------------------------------------------------------------
\* Timer constants (seconds)

\* this._responseTimeout
(***************************************************************************)
(* Message parser and cipher (lib/message-parser.js, lib/cipher.js).       *)
(* A buffer is a sequence of fields.  A field has a length n in bytes and  *)
(* a kind t: "u32" and "u16" are integers (x is the value), "json" is the  *)
(* JSON text of the payload numbered x, "hdr" is the 15 byte version       *)
(* header and "ver" the 3 byte version text (k is the version), "pad" is   *)
(* the 3.4 padding, "ecb", "ecb64", "ecb0" and "gcm" are ciphertexts of    *)
(* inner under key k, "md5", "crc", "hmac" and "tag" are digests of inner, *)
(* "iv" is the GCM nonce and "part" is what a slice leaves of a field it   *)
(* cuts through.  Ciphertexts and digests are opaque: their bytes never    *)
(* spell an integer pattern the parser looks for, a ciphertext opens only  *)
(* under its own key and mode, and a digest equals only the digest of the  *)
(* same bytes.                                                             *)
(***************************************************************************)
HEADER_SIZE == 16
HEADER_SIZE_3_5 == 4
Prefix55AA == 21930
SuffixAA55 == 43605
Prefix6699 == 26265
Suffix9966 == 39270
\* The value the corruptions write (0x0000DEAD), no pattern of the parser.
DEAD == 57005
UnknownCommand == 1000

CommandType ==
  [UDP |-> 0, AP_CONFIG |-> 1, ACTIVE |-> 2, SESS_KEY_NEG_START |-> 3,
   SESS_KEY_NEG_RES |-> 4, SESS_KEY_NEG_FINISH |-> 5, UNBIND |-> 6,
   CONTROL |-> 7, STATUS |-> 8, HEART_BEAT |-> 9, DP_QUERY |-> 10,
   QUERY_WIFI |-> 11, TOKEN_BIND |-> 12, CONTROL_NEW |-> 13,
   ENABLE_WIFI |-> 14, DP_QUERY_NEW |-> 16, SCENE_EXECUTE |-> 17,
   DP_REFRESH |-> 18, UDP_NEW |-> 19, AP_CONFIG_NEW |-> 20,
   BOARDCAST_LPV34 |-> 35, LAN_EXT_STREAM |-> 40]

CommandValues == {CommandType[c] : c \in DOMAIN CommandType} \cup (240 .. 252)

Seg(t, n, x, k, inner) == [t |-> t, n |-> n, x |-> x, k |-> k, inner |-> inner]
UInt32(v) == Seg("u32", 4, v, "", <<>>)
UInt16(v) == Seg("u16", 2, v, "", <<>>)
Part(n) == Seg("part", n, -1, "", <<>>)

RECURSIVE length(_)
length(b) == IF b = <<>> THEN 0 ELSE Head(b).n + length(Tail(b))

RECURSIVE take(_, _)
take(b, n) ==
  IF n <= 0 \/ b = <<>> THEN <<>>
  ELSE IF Head(b).n <= n THEN <<Head(b)>> \o take(Tail(b), n - Head(b).n)
  ELSE <<Part(n)>>

RECURSIVE drop(_, _)
drop(b, n) ==
  IF b = <<>> THEN <<>>
  ELSE IF n <= 0 THEN b
  ELSE IF Head(b).n <= n THEN drop(Tail(b), n - Head(b).n)
  ELSE <<Part(Head(b).n - n)>> \o Tail(b)

\* Buffer.prototype.slice: a negative index counts from the end, and both
\* indexes are clamped to the buffer.
clamp(i, len) == IF i < 0 THEN (IF len + i < 0 THEN 0 ELSE len + i)
                 ELSE IF i > len THEN len ELSE i
slice(b, from, to) ==
  LET f == clamp(from, length(b))
      e == clamp(to, length(b))
  IN  take(drop(b, f), e - f)

\* readUInt32BE throws a RangeError outside the buffer; bytes that are not
\* an integer field read as a number (-1) that is none of the patterns and
\* has non zero high bytes.
readUInt32BE(b, off) ==
  LET d == drop(b, off)
  IN  [threw |-> off < 0 \/ off + 4 > length(b),
       v |-> IF d # <<>> /\ Head(d).t = "u32" THEN Head(d).x ELSE -1]

\* readInt32BE, kept as the field read so that it compares with crc().
readInt32BE(b, off) ==
  [threw |-> off < 0 \/ off + 4 > length(b), v |-> take(drop(b, off), 4)]

RECURSIVE indexFrom(_, _, _)
indexFrom(b, pattern, off) ==
  IF b = <<>> THEN -1
  ELSE IF Head(b).t = "u32" /\ Head(b).x = pattern THEN off
  ELSE indexFrom(Tail(b), pattern, off + Head(b).n)
indexOf(b, pattern) == indexFrom(b, pattern, 0)

crc(b) == <<Seg("crc", 4, 0, "", b)>>
hmac(key, b) == <<Seg("hmac", 32, 0, key, b)>>
md5(key, b) == Seg("md5", 16, 0, key, b)

\* Payload values: the object numbered id; wrapped objects have a `data`
\* key.  JSON.stringify and JSON.parse are inverse on whole JSON texts and
\* JSON.parse throws on anything else.
PlainObject == [kind |-> "object", id |-> 1, wrapped |-> FALSE, unwrapped |-> FALSE]
WrappedObject == [kind |-> "object", id |-> 2, wrapped |-> TRUE, unwrapped |-> FALSE]
False == [kind |-> "false", id |-> 0, wrapped |-> FALSE, unwrapped |-> FALSE]
Garbage(kind) == [kind |-> kind, id |-> -1, wrapped |-> FALSE, unwrapped |-> FALSE]
JsonLen == 20
stringify(p) == <<Seg("json", JsonLen + p.id, p.id, IF p.wrapped THEN "data" ELSE "", <<>>)>>
isJson(b) == Len(b) = 1 /\ b[1].t = "json"
jsonParse(b) ==
  [kind |-> "object", id |-> b[1].x, wrapped |-> b[1].k = "data", unwrapped |-> FALSE]

startsWith(b, v) == b # <<>> /\ Head(b).t \in {"hdr", "ver"} /\ Head(b).k = v
Header(v) == Seg("hdr", 15, 0, v, <<>>)

\* ---- TuyaCipher
_encryptPre34(key, data, base64) ==
  IF base64
    THEN <<Seg("ecb64", 4 * (((16 * ((length(data) \div 16) + 1)) + 2) \div 3), 0, key, data)>>
    ELSE <<Seg("ecb", 16 * ((length(data) \div 16) + 1), 0, key, data)>>

_encrypt34(key, data) == <<Seg("ecb0", length(data), 0, key, data)>>

_encrypt35(key, data, aad) ==
  <<Seg("iv", 12, 0, "", <<>>), Seg("gcm", length(data), 0, key, data),
    Seg("tag", 16, 0, key, aad \o data), UInt32(Suffix9966)>>

encrypt(v, key, data, base64, aad) ==
  IF v = "3.4" THEN _encrypt34(key, data)
  ELSE IF v = "3.5" THEN _encrypt35(key, data, aad)
  ELSE _encryptPre34(key, data, base64)

\* The result of a decrypt: thrown, or a value; text holds the characters
\* when the value is a string that is not JSON.
Thrown == [threw |-> TRUE, value |-> False]
Value(p) == [threw |-> FALSE, value |-> p]

_decryptPre34(v, key, data0) ==
  LET marked == startsWith(data0, v)
      base64 == marked /\ v \notin {"3.3", "3.2"}
      data == IF ~marked THEN data0
              ELSE IF base64 THEN slice(data0, 19, length(data0))
              ELSE slice(data0, 15, length(data0))
      opens == Len(data) = 1 /\ data[1].k = key
               /\ data[1].t = (IF base64 THEN "ecb64" ELSE "ecb")
  IN  IF ~opens THEN Thrown
      ELSE IF isJson(data[1].inner) THEN Value(jsonParse(data[1].inner))
      ELSE Value(Garbage("string"))

\* Shared tail of _decrypt34 and _decrypt35: version header, JSON, envelope.
unwrap(v, result0) ==
  LET result == IF startsWith(result0, v) THEN slice(result0, 15, length(result0))
                ELSE result0
  IN  IF ~isJson(result) THEN Value(Garbage("buffer"))
      ELSE IF jsonParse(result).wrapped
        THEN Value([jsonParse(result) EXCEPT !.unwrapped = TRUE])
      ELSE Value(jsonParse(result))

_decrypt34(v, key, data) ==
  LET opens == Len(data) = 1 /\ data[1].t = "ecb0" /\ data[1].k = key
      plain == data[1].inner
      padded == plain # <<>> /\ plain[Len(plain)].t = "pad"
  IN  IF opens
        THEN unwrap(v, IF padded THEN SubSeq(plain, 1, Len(plain) - 1) ELSE plain)
      ELSE IF length(data) % 16 = 0 THEN Value(Garbage("buffer"))
      ELSE Thrown

_decrypt35(v, key, data0) ==
  LET header == slice(data0, 0, 14)
      iv == slice(data0, 14, 26)
      tag == slice(data0, length(data0) - 16, length(data0))
      data == slice(data0, 26, length(data0) - 16)
      opens == /\ Len(data) = 1 /\ data[1].t = "gcm" /\ data[1].k = key
               /\ Len(iv) = 1 /\ iv[1].t = "iv"
               /\ tag = <<Seg("tag", 16, 0, key, header \o data[1].inner)>>
  IN  IF ~opens THEN Thrown
      ELSE unwrap(v, slice(data[1].inner, 4, length(data[1].inner)))

decrypt(v, key, data, ver) ==
  IF ver = "3.4" THEN _decrypt34(v, key, data)
  ELSE IF ver = "3.5" THEN _decrypt35(v, key, data)
  ELSE _decryptPre34(v, key, data)

\* ---- MessageParser
Packet(payload, leftover, more, commandByte, sequenceN, v) ==
  [threw |-> FALSE, payload |-> payload, leftover |-> leftover, more |-> more,
   commandByte |-> commandByte, sequenceN |-> sequenceN, version |-> v]
ParseError == [threw |-> TRUE, payload |-> <<>>, leftover |-> <<>>, more |-> FALSE,
               commandByte |-> -1, sequenceN |-> -1, version |-> ""]

parsePacket(v, key, buffer0) ==
  LET prefix == readUInt32BE(buffer0, 0)
      aa55 == indexOf(buffer0, SuffixAA55)
      suffixLocation == IF aa55 = -1 THEN indexOf(buffer0, Suffix9966) ELSE aa55
      more == suffixLocation # length(buffer0) - 4
      leftover == IF more THEN slice(buffer0, suffixLocation + 4, length(buffer0)) ELSE <<>>
      buffer == IF more THEN slice(buffer0, 0, suffixLocation + 4) ELSE buffer0
      suffix == readUInt32BE(buffer, length(buffer) - 4)
      is35 == suffix.v = Suffix9966
      sequenceN == readUInt32BE(buffer, IF is35 THEN 6 ELSE 4)
      commandByte == readUInt32BE(buffer, IF is35 THEN 10 ELSE 8)
      size == readUInt32BE(buffer, IF is35 THEN 14 ELSE 12)
      payloadSize == IF is35 THEN size.v + 14 ELSE size.v
      packageFromDiscovery == commandByte.v \in {CommandType.UDP, CommandType.UDP_NEW,
                                                 CommandType.BOARDCAST_LPV34}
      returnCode == readUInt32BE(buffer, 16)
      as35 == is35 \/ v = "3.5"
      withHmac == v = "3.4" /\ ~packageFromDiscovery
      trailer == IF withHmac THEN 36 ELSE 8
      start == IF returnCode.v \in 0 .. 255 THEN HEADER_SIZE + 4 ELSE HEADER_SIZE
      payload == IF as35 THEN slice(buffer, HEADER_SIZE_3_5, HEADER_SIZE_3_5 + payloadSize)
                 ELSE slice(buffer, start, HEADER_SIZE + payloadSize - trailer)
      expectedHmac == slice(buffer, HEADER_SIZE + payloadSize - 36, length(buffer) - 4)
      computedHmac == hmac(key, slice(buffer, 0, HEADER_SIZE + payloadSize - 36))
      expectedCrc == readInt32BE(buffer, HEADER_SIZE + payloadSize - 8)
      computedCrc == crc(slice(buffer, 0, payloadSize + 8))
      seq35 == readUInt32BE(slice(buffer, 6, 10), 0)
      cmd35 == readUInt32BE(slice(buffer, 10, 14), 0)
  IN  IF length(buffer0) < 24 THEN ParseError
      ELSE IF prefix.v \notin {Prefix55AA, Prefix6699} THEN ParseError
      ELSE IF suffix.threw \/ suffix.v \notin {SuffixAA55, Suffix9966} THEN ParseError
      ELSE IF sequenceN.threw \/ commandByte.threw \/ size.threw THEN ParseError
      ELSE IF length(buffer) - 8 < payloadSize THEN ParseError
      ELSE IF returnCode.threw THEN ParseError
      ELSE IF as35
        THEN IF seq35.threw \/ cmd35.threw THEN ParseError
             ELSE Packet(payload, leftover, more, cmd35.v, seq35.v, "3.5")
      ELSE IF withHmac /\ expectedHmac # computedHmac THEN ParseError
      ELSE IF ~withHmac /\ (expectedCrc.threw \/ expectedCrc.v # computedCrc) THEN ParseError
      ELSE Packet(payload, leftover, more, commandByte.v, sequenceN.v, v)

getPayload(v, key, data, ver) ==
  LET d == decrypt(v, key, data, ver)
  IN  IF length(data) = 0 THEN False
      ELSE IF ~d.threw THEN d.value
      ELSE IF isJson(data) THEN jsonParse(data)
      ELSE Garbage("string")

\* parseRecursive: the list of packets, or <<>> with threw set when any
\* parsePacket throws.
RECURSIVE parseRecursive(_, _, _, _)
parseRecursive(v, key, buffer, packets) ==
  LET result == parsePacket(v, key, buffer)
      packet == [payload |-> getPayload(v, key, result.payload, result.version),
                 commandByte |-> result.commandByte,
                 sequenceN |-> result.sequenceN,
                 version |-> result.version]
  IN  IF result.threw THEN [threw |-> TRUE, packets |-> <<>>]
      ELSE IF result.more THEN parseRecursive(v, key, result.leftover, Append(packets, packet))
      ELSE [threw |-> FALSE, packets |-> Append(packets, packet)]

parse(v, key, buffer) == parseRecursive(v, key, buffer, <<>>)

NoHeader34 == {CommandType.DP_QUERY, CommandType.HEART_BEAT, CommandType.DP_QUERY_NEW,
               CommandType.SESS_KEY_NEG_START, CommandType.SESS_KEY_NEG_FINISH,
               CommandType.DP_REFRESH}

_encodePre34(v, key, opts) ==
  LET data == stringify(opts.data)
      sealed == encrypt(v, key, data, FALSE, <<>>)
      based == encrypt(v, key, data, TRUE, <<>>)
      payload == IF v \in {"3.3", "3.2"}
                   THEN IF opts.commandByte \notin {CommandType.DP_QUERY, CommandType.DP_REFRESH}
                          THEN <<Header("3.3")>> \o sealed
                          ELSE sealed
                 ELSE IF opts.encrypted
                   THEN <<Seg("ver", 3, 0, v, <<>>), md5(key, based)>> \o based
                 ELSE data
      head == <<UInt32(Prefix55AA), UInt32(opts.sequenceN),
                UInt32(opts.commandByte), UInt32(length(payload) + 8)>> \o payload
  IN  head \o crc(head) \o <<UInt32(SuffixAA55)>>

_encode34(v, key, opts) ==
  LET data == stringify(opts.data)
      headed == IF opts.commandByte \notin NoHeader34 THEN <<Header("3.4")>> \o data ELSE data
      padding == 16 - (length(headed) % 16)
      payload == encrypt(v, key, headed \o <<Seg("pad", padding, padding, "", <<>>)>>, TRUE, <<>>)
      head == <<UInt32(Prefix55AA), UInt32(opts.sequenceN),
                UInt32(opts.commandByte), UInt32(length(payload) + 36)>> \o payload
  IN  head \o hmac(key, head) \o <<UInt32(SuffixAA55)>>

_encode35(v, key, opts) ==
  LET data == stringify(opts.data)
      payload == IF opts.commandByte \notin NoHeader34 THEN <<Header("3.5")>> \o data ELSE data
      buffer == <<UInt32(Prefix6699), UInt16(0), UInt32(opts.sequenceN),
                  UInt32(opts.commandByte), UInt32(length(payload) + 28)>>
  IN  buffer \o encrypt(v, key, payload, TRUE, slice(buffer, 4, 18))

\* encode without the check of the command.
encodeAnyCommand(v, key, opts) ==
  [threw |-> FALSE,
   buffer |-> IF v = "3.4" THEN _encode34(v, key, opts)
              ELSE IF v = "3.5" THEN _encode35(v, key, opts)
              ELSE _encodePre34(v, key, opts)]

\* MessageParser.encode: throws before any byte is produced when the
\* command is not a value of CommandType.
parserEncode(v, key, opts) ==
  IF opts.commandByte \notin CommandValues THEN [threw |-> TRUE, buffer |-> <<>>]
  ELSE [threw |-> FALSE,
        buffer |-> IF v = "3.4" THEN _encode34(v, key, opts)
                   ELSE IF v = "3.5" THEN _encode35(v, key, opts)
                   ELSE _encodePre34(v, key, opts)]

\* The inputs the codec is applied to.
ParserVersions == {"3.1", "3.2", "3.3", "3.4", "3.5"}
ParserKey == "local"
EncodeOptions ==
  [data : {PlainObject, WrappedObject},
   commandByte : {CommandType.UDP, CommandType.CONTROL, CommandType.DP_QUERY,
                  CommandType.CONTROL_NEW, CommandType.DP_REFRESH, UnknownCommand},
   sequenceN : {0, 2, SuffixAA55},
   encrypted : BOOLEAN]

\* The corruptions of test/parser.js applied to an encoded frame.
Corruptions == {"short", "prefix", "suffix", "trailer", "cut"}
corrupt(b, c) ==
  IF c = "short" THEN slice(b, 0, 23)
  ELSE IF c = "cut" THEN slice(b, 0, -10)
  ELSE IF c = "prefix" THEN <<UInt32(DEAD)>> \o slice(b, 4, length(b))
  ELSE IF c = "suffix" THEN slice(b, 0, length(b) - 4) \o <<UInt32(DEAD)>>
  ELSE slice(b, 0, length(b) - 8) \o <<UInt32(DEAD)>> \o slice(b, length(b) - 4, length(b))

Idle == [stage |-> "idle", was |-> "idle", version |-> "3.1", options |-> <<>>,
         second |-> <<>>, damage |-> "", buffer |-> <<>>, threw |-> FALSE, packets |-> <<>>]

\* Chunks on which parse throws: a frame cut to 23 bytes and a frame whose
\* prefix was overwritten.
BadChunks ==
  LET frame == parserEncode("3.3", ParserKey,
                            [data |-> PlainObject, commandByte |-> CommandType.STATUS,
                             sequenceN |-> 2, encrypted |-> FALSE]).buffer
  IN  {corrupt(frame, "short"), corrupt(frame, "prefix")}

\* A 'data' listener that destroyed the socket when parser.parse throws.
parseFailedDestroys(s) == onClose([emit(s, "error") EXCEPT !.client = "destroyed"])

\* The 'data' listener when parser.parse throws: the catch emits 'error' and
\* returns before any packet is handled.
parseFailed(s) == emit(s, "error")

_responseTimeout == 2

\* this._pingPongPeriod
_pingPongPeriod == 10

----------------------------------------------------------------------------
\* Actions

\* Packets the device may send: one of each kind _packetHandler tells apart.
\* The sequence number of a heartbeat reply or a set ack and the payload of a
\* DP_QUERY or DP_REFRESH reply are not read by any branch that handles them.
Packets ==
    [cmd : {"HEART_BEAT", "CONTROL", "CONTROL_NEW"}, seq : {1},
     payload : {"false"}, hmacOk : {TRUE}]
    \cup [cmd : {"STATUS"}, seq : 1..MaxSeq,
          payload : {"dps1", "dpsNo1"}, hmacOk : {TRUE}]
    \cup [cmd : {"DP_QUERY", "DP_QUERY_NEW"}, seq : 1..MaxSeq,
          payload : {"dps1"}, hmacOk : {TRUE}]
    \cup [cmd : {"DP_REFRESH"}, seq : 1..MaxSeq,
          payload : {"false"}, hmacOk : {TRUE}]
    \cup [cmd : {"SESS_KEY_NEG_RES"}, seq : 1..MaxSeq,
          payload : {"dps1"}, hmacOk : BOOLEAN]

Get == Commit(get(S, FALSE))

Refresh == Commit(refresh(S, FALSE))

Set == \E o \in SetOptions : Commit(set(S, o))

Connect == Commit(connect(S))

Disconnect == Commit(disconnect(S))

SockConnect == client = "connecting" /\ Commit(onConnect(S))

SockError == client \in {"connecting", "open"} /\ Commit(onError(S))

SockClose == client = "open" /\ Commit(onClose([S EXCEPT !.client = "destroyed"]))

SockTimeout == connTimer /\ Commit(onTimeout(S))

\* The device: it answers a request under the sequence number of the request
\* (SESS_KEY_NEG_START, a query, a refresh), acknowledges a ping or a set that
\* was written, and pushes STATUS at any time; it sends nothing but the
\* handshake reply before the session is established.
Echoes(pkt) ==
    /\ pkt.cmd = "SESS_KEY_NEG_RES" =>
          \E k \in 1..Len(written) :
              written[k].cmd = "SESS_KEY_NEG_START" /\ written[k].seq = pkt.seq
    /\ pkt.cmd # "SESS_KEY_NEG_RES" => _connected
    /\ pkt.cmd \in {"HEART_BEAT", "CONTROL", "CONTROL_NEW"} =>
          \E k \in 1..Len(written) : written[k].cmd = pkt.cmd
    /\ pkt.cmd \in {"DP_QUERY", "DP_QUERY_NEW", "DP_REFRESH"} =>
          \E k \in 1..Len(written) :
              written[k].cmd = pkt.cmd /\ written[k].seq = pkt.seq

Receive ==
    /\ client = "open"
    /\ \E pkt \in Packets : Echoes(pkt) /\ Commit(onData(S, pkt))

\* 'data' with a chunk the parser rejects.
BadData ==
    /\ client = "open"
    /\ \E b \in BadChunks :
         /\ parse(version, getKey(S), b).threw
         /\ Commit(parseFailed(S))

\* 'data' on the earlier socket: its device answers the START it received.
\* The HMAC it carries can match only while _tmpLocalKey is still the nonce
\* of that START.
LeakedReceive ==
    /\ leaked.seq # 0
    /\ \E ok \in BOOLEAN :
         /\ ok => leaked.keyed
         /\ Commit(onData(S, [cmd |-> "SESS_KEY_NEG_RES", seq |-> leaked.seq,
                               payload |-> "dps1", hmacOk |-> ok]))

\* 'close' of the earlier socket: its listener calls this.disconnect().
LeakedClose == leaked.seq # 0 /\ Commit(onClose([S EXCEPT !.leaked = NoLeak]))

\* 'error' of the earlier socket: its listener rejects the connect in flight
\* and destroys this.client; then both sockets close.
LeakedError == leaked.seq # 0 /\ Commit(onError([S EXCEPT !.leaked = NoLeak]))

\* The interval's tick.  A live pong timer was armed by the tick before and
\* runs for _responseTimeout, so it is still live at this tick only if the
\* period is not longer than that.
PingTick ==
    /\ _pingPongInterval
    /\ _pingPongTimeout = "armed" => _pingPongPeriod <= _responseTimeout
    /\ Commit(_sendPing(S))

PongTimeout == _pingPongTimeout = "armed" /\ Commit(onPongTimeout(S))

SetTimeout ==
    \E i \in 1..Len(reqs) : reqs[i].tmr /\ Commit(setTimedOut(S, i))

RetryFire ==
    \E i \in 1..Len(reqs) : reqs[i].send = "backoff" /\ Commit(attempt(S, i))

----------------------------------------------------------------------------
\* toggle() and the device it talks to

\* Bounds of the exploration of toggle.
MaxToggles == 2    \* toggle() calls made in one behaviour
TogMaxSeq == 13    \* largest value _currentSequenceN takes
TogMaxReq == 7     \* get / set calls made in one behaviour

\* The values of a data point, as toggle reads them: "true", "false" and
\* "undefined"; "none" stands for a variable that has not been assigned.
\* A toggle that sends the value it read (the variant C27 is tried against).
negateSame(v) == v

\* !status: true for false and for undefined.
negate(v) == IF v = "true" THEN "false" ELSE "true"

\* What get() returns for property '1' from the data its _send resolved with:
\* data.dps['1'], undefined when dps lacks it.
getResult(pkt) == IF pkt.payload = "dps1" THEN pkt.dps ELSE "undefined"

NoToggle ==
    [pc |-> "idle", awaiting |-> 0, status |-> "none", sent |-> "none",
     setReq |-> 0, got |-> "none", result |-> "none", calls |-> <<>>,
     runs |-> 0, dp |-> "false", dp0 |-> "false", at |-> "false",
     next |-> 1, out |-> <<>>]

\* toggle(): property is '1'; the first get is called and awaited.
toggle(s, t) ==
    LET n == get(s, FALSE) IN
    [s |-> n,
     t |-> [t EXCEPT !.pc = "get1", !.awaiting = Len(n.reqs),
                     !.status = "none", !.sent = "none", !.setReq = 0,
                     !.got = "none", !.result = "none",
                     !.calls = <<"get">>, !.at = t.dp]]

\* toggle() after an await: once the promise it awaits has resolved with the
\* data of pkt it goes on to its next line: set with the negation of the
\* status read, the second get, the return of that get's value.  A rejected
\* promise rejects toggle().
toggleResumed(s, t, pkt) ==
    IF t.pc \notin {"get1", "set", "get2"} \/ s.reqs[t.awaiting].p = "pending"
    THEN [s |-> s, t |-> t]
    ELSE IF s.reqs[t.awaiting].p = "rejected"
    THEN [s |-> s, t |-> [t EXCEPT !.pc = "failed"]]
    ELSE IF t.pc = "get1"
    THEN LET n == set(s, [args |-> "entries", wait |-> TRUE])
             i == Len(n.reqs)
         IN [s |-> n,
             t |-> [t EXCEPT !.pc = IF n.reqs[i].p = "rejected"
                                    THEN "failed" ELSE "set",
                             !.awaiting = i,
                             !.status = getResult(pkt),
                             !.sent = negate(getResult(pkt)),
                             !.setReq = i,
                             !.calls = Append(@, "set")]]
    ELSE IF t.pc = "set"
    THEN LET n == get(s, FALSE) IN
         [s |-> n,
          t |-> [t EXCEPT !.pc = "get2", !.awaiting = Len(n.reqs),
                          !.calls = Append(@, "get")]]
    ELSE [s |-> s,
          t |-> [t EXCEPT !.pc = "done", !.awaiting = 0,
                          !.got = getResult(pkt),
                          !.result = getResult(pkt),
                          !.runs = @ + 1]]

\* A packet of the device: what _packetHandler reads, and the value of data
\* point 1 in its dps.
Reply(cmd, seq, payload, dps) ==
    [cmd |-> cmd, seq |-> seq, payload |-> payload, hmacOk |-> TRUE, dps |-> dps]

\* The device can read a frame that is encrypted under the key of the
\* session: the local key, or the negotiated key for v3.4/3.5.
readable(s, f) ==
    \/ f.cmd = "SESS_KEY_NEG_START"
    \/ f.enc = IF NeedsHandshake(s.version) THEN "session" ELSE "local"

\* The device reads the next frame written to the socket: it answers the
\* handshake, a ping and a query under the frame's sequence number, and a
\* set by storing the value, acknowledging, and pushing STATUS with the new
\* value (numbered 0 or as the frame; before or after the acknowledgement).
deviceReads(s, t, statusSeq, statusFirst) ==
    LET f  == s.written[t.next]
        t1 == [t EXCEPT !.next = @ + 1]
    IN IF ~readable(s, f) \/ f.cmd = "SESS_KEY_NEG_FINISH" THEN t1
       ELSE IF f.cmd = "SESS_KEY_NEG_START"
       THEN [t1 EXCEPT !.out = Append(@, Reply("SESS_KEY_NEG_RES", f.seq, "dps1", "undefined"))]
       ELSE IF f.cmd = "HEART_BEAT"
       THEN [t1 EXCEPT !.out = Append(@, Reply("HEART_BEAT", f.seq, "false", "undefined"))]
       ELSE IF f.cmd \in {"DP_QUERY", "DP_QUERY_NEW"}
       THEN [t1 EXCEPT !.out = Append(@, Reply(f.cmd, f.seq, "dps1", t.dp))]
       ELSE IF f.cmd \in {"CONTROL", "CONTROL_NEW"}
       THEN LET v   == IF f.req = t.setReq THEN t.sent ELSE t.dp
                ack == Reply(f.cmd, f.seq, "false", "undefined")
                st  == Reply("STATUS", IF statusSeq THEN f.seq ELSE 0, "dps1", v)
            IN [t1 EXCEPT !.dp = v,
                          !.out = @ \o IF statusFirst THEN <<st, ack>>
                                        ELSE <<ack, st>>]
       ELSE t1

----------------------------------------------------------------------------
\* get() as its caller sees it, and the device it talks to

\* Bound of the exploration of get.
MaxGets == 2       \* get() calls made in one behaviour

\* The two replies to DP_QUERY that make get fall back (line 171).
QueryErrors == {"json obj data unvalid", "data format error"}

\* What a device may answer a query with: an object with dps 1, an object
\* whose dps lacks 1, the two error strings, and another string.
QueryReplies == {"dps1", "dpsNo1", "devid not found"} \cup QueryErrors

\* What a device may answer the fallback's CONTROL frame with.
SetReplies == {"dps1", "dpsNo1", "devid not found"}

\* The data a promise resolved with: the packet's payload, with the value of
\* data point 1 when it holds one.
Data(pkt) ==
    [payload |-> pkt.payload,
     dps |-> IF pkt.payload = "dps1" THEN pkt.dps ELSE "undefined"]

\* A single property's value, as get returns it.
Property(v) == [property |-> v]

\* typeof data === 'object' for the payloads above.
isObject(payload) == payload \in {"dps1", "dpsNo1"}

\* The last lines of get (186-197), for property '1': the whole response when
\* it is not an object or schema is asked for, else data.dps['1'].
getReturns(pkt, schema) ==
    IF ~isObject(pkt.payload) \/ schema THEN Data(pkt)
    ELSE Property(Data(pkt).dps)

\* No get() has been called.
NoGet ==
    [pc |-> "idle", awaiting |-> 0, schema |-> FALSE, reqs0 |-> 0,
     written0 |-> 0, reply |-> "none", fellBack |-> FALSE,
     setData |-> "none", result |-> "none", runs |-> 0, dp |-> "false",
     next |-> 1, out |-> <<>>]

\* get(options) up to its first await: either _send's promise (the query) or
\* the promise of the fallback set.
getCalled(s, g, schema) ==
    LET n == get(s, FALSE)
        i == Len(n.reqs)
        viaSet == i > Len(s.reqs) /\ n.reqs[i].kind = "set"
    IN [s |-> n,
        t |-> [g EXCEPT !.pc = IF ~viaSet THEN "query"
                               ELSE IF n.reqs[i].p = "rejected" THEN "failed"
                               ELSE "fallback",
                        !.awaiting = i, !.schema = schema,
                        !.reqs0 = Len(s.reqs), !.written0 = Len(s.written),
                        !.reply = "none", !.fellBack = viaSet,
                        !.setData = "none", !.result = "none",
                        !.runs = @ + 1]]

\* get() after an await: once the promise it awaits has resolved with the
\* data of pkt it goes on: to the fallback set when the query's reply is one
\* of the two error strings, else to its return.  A rejected promise rejects
\* get().
getResumed(s, g, pkt) ==
    IF g.pc \notin {"query", "fallback"} \/ s.reqs[g.awaiting].p = "pending"
    THEN [s |-> s, t |-> g]
    ELSE IF s.reqs[g.awaiting].p = "rejected"
    THEN [s |-> s, t |-> [g EXCEPT !.pc = "failed", !.awaiting = 0]]
    ELSE IF g.pc = "query" /\ pkt.payload \in QueryErrors
    THEN LET n == getBySet(s, FALSE)
             i == Len(n.reqs)
         IN [s |-> n,
             t |-> [g EXCEPT !.pc = IF n.reqs[i].p = "rejected"
                                    THEN "failed" ELSE "fallback",
                             !.awaiting = i,
                             !.reply = pkt.payload,
                             !.fellBack = TRUE]]
    ELSE [s |-> s,
          t |-> [g EXCEPT !.pc = "done", !.awaiting = 0,
                          !.reply = IF g.pc = "query" THEN pkt.payload ELSE @,
                          !.setData = IF g.pc = "fallback" THEN Data(pkt) ELSE @,
                          !.result = getReturns(pkt, g.schema)]]

\* The device reads the next frame written to the socket: it answers the
\* handshake, a query with any of QueryReplies under the frame's sequence
\* number, and a CONTROL frame with an acknowledgement and then either STATUS
\* (numbered 0 or as the frame) or a DP_QUERY packet, carrying any of
\* SetReplies.
queriedDeviceReads(s, g, q, c, byStatus, statusSeq) ==
    LET f  == s.written[g.next]
        g1 == [g EXCEPT !.next = @ + 1]
    IN IF ~readable(s, f) \/ f.cmd = "SESS_KEY_NEG_FINISH" THEN g1
       ELSE IF f.cmd = "SESS_KEY_NEG_START"
       THEN [g1 EXCEPT !.out = Append(@, Reply("SESS_KEY_NEG_RES", f.seq, "dps1", "undefined"))]
       ELSE IF f.cmd \in {"DP_QUERY", "DP_QUERY_NEW"}
       THEN [g1 EXCEPT !.out = Append(@, Reply(f.cmd, f.seq, q, g.dp))]
       ELSE IF f.cmd \in {"CONTROL", "CONTROL_NEW"}
       THEN [g1 EXCEPT !.out = @ \o
               <<Reply(f.cmd, f.seq, "false", "undefined"),
                 IF byStatus
                 THEN Reply("STATUS", IF statusSeq THEN f.seq ELSE 0, c, g.dp)
                 ELSE Reply("DP_QUERY", f.seq, c, g.dp)>>]
       ELSE g1

\* The fields the constructor sets whatever its options are.
Unconnected ==
    /\ issueRefreshOnConnect = FALSE
    /\ _connected = FALSE
    /\ connectPromise = FALSE
    /\ client = "none"
    /\ connTimer = FALSE
    /\ _currentSequenceN = 0
    /\ _resolvers = {}
    /\ _setResolver = 0
    /\ _setResolveAllowGet = FALSE
    /\ _expectRefreshResponseForSequenceN = 0
    /\ _setQueue = <<>>
    /\ setRunning = 0
    /\ _pingPongInterval = FALSE
    /\ _pingPongTimeout = "null"
    /\ sessionKey = FALSE
    /\ leaked = NoLeak
    /\ reqs = <<>>
    /\ waiters = <<>>
    /\ written = <<>>
    /\ setWrites = <<>>
    /\ discCount = 0
    /\ phasePonged = FALSE
    /\ foundDevices = <<>>
    /\ _dpRefreshIds = "all"
    /\ finds = <<>>

\* The instance after construction, for any version and option.
Constructed ==
    /\ version \in Versions
    /\ issueGetOnConnect \in BOOLEAN
    /\ Unconnected

\* The session model starts from a constructed device that has id and ip.
Built ==
    /\ options = FullOptions
    /\ built = "ok"
    /\ device = constructor(FullOptions).device

Init == Constructed /\ Built /\ quietPeer = TRUE /\ codec = Idle /\ tog = NoToggle

Next ==
    \/ Get
    \/ Refresh
    \/ Set
    \/ Connect
    \/ Disconnect
    \/ SockConnect
    \/ SockError
    \/ SockClose
    \/ SockTimeout
    \/ Receive
    \/ BadData
    \/ PingTick
    \/ PongTimeout
    \/ SetTimeout
    \/ RetryFire

Spec == Init /\ [][Next]_vars

\* The handshake against a peer that may act on a socket the instance has
\* replaced: connects, queries, the socket events and the events of the
\* replaced socket, for a version that negotiates a session key.
LeakInit ==
    /\ Constructed
    /\ Built
    /\ NeedsHandshake(version)
    /\ ~issueGetOnConnect
    /\ quietPeer = FALSE
    /\ codec = Idle
    /\ tog = NoToggle

LeakNext ==
    \/ Get
    \/ Connect
    \/ Disconnect
    \/ SockConnect
    \/ SockError
    \/ SockClose
    \/ SockTimeout
    \/ Receive
    \/ RetryFire
    \/ LeakedReceive
    \/ LeakedClose
    \/ LeakedError

LeakSpec == LeakInit /\ [][LeakNext]_vars

\* Construction and discovery: the constructor applied to every option set
\* of OptionSets, then find() calls, the broadcasts and socket errors their
\* listeners receive, and their timeouts.
Construct == built = "no" /\ Commit(construct(S, options))

Find == built = "ok" /\ \E all \in BOOLEAN : Commit(find(S, all))

\* A 'message' event of one of the two sockets of find call i.
Broadcast ==
    \E i \in 1..Len(finds), m \in Broadcasts :
        /\ finds[i].listener = "bound" \/ finds[i].listenerEncrypted = "bound"
        /\ Commit(broadcastHandler(S, i, m))

\* An 'error' event of one of the two sockets of find call i.
ListenerError ==
    \E i \in 1..Len(finds) :
        /\ finds[i].listener = "bound" \/ finds[i].listenerEncrypted = "bound"
        /\ Commit(listenerError(S, i))

FindTimeout ==
    \E i \in 1..Len(finds) : finds[i].timer /\ Commit(findTimeout(S, i))

FindInit ==
    /\ Constructed
    /\ version = "3.3"
    /\ issueGetOnConnect
    /\ quietPeer = TRUE
    /\ options \in OptionSets
    /\ built = "no"
    /\ device = NoDevice
    /\ codec = Idle
    /\ tog = NoToggle

FindNext ==
    \/ Construct
    \/ Find
    \/ Broadcast
    \/ ListenerError
    \/ FindTimeout

FindSpec == FindInit /\ [][FindNext]_vars

\* The parser alone: encode applied to every option set of EncodeOptions
\* under every version, then the frame parsed as it is, joined to a second
\* frame, or corrupted.
CodecEncode ==
    /\ codec.stage = "options"
    /\ LET r == parserEncode(codec.version, ParserKey, codec.options)
       IN  codec' = [codec EXCEPT !.stage = IF r.threw THEN "threw" ELSE "encoded",
                                  !.buffer = r.buffer,
                                  !.threw = r.threw]
    /\ UNCHANGED instance

CodecConcat ==
    /\ codec.stage = "encoded"
    /\ \E o \in EncodeOptions :
         LET r == parserEncode(codec.version, ParserKey, o)
         IN  /\ ~r.threw
             /\ codec' = [codec EXCEPT !.stage = "joined",
                                       !.second = <<o>>,
                                       !.buffer = @ \o r.buffer]
    /\ UNCHANGED instance

CodecCorrupt ==
    /\ codec.stage = "encoded"
    /\ \E c \in Corruptions :
         codec' = [codec EXCEPT !.stage = "corrupted",
                                !.damage = c,
                                !.buffer = corrupt(@, c)]
    /\ UNCHANGED instance

\* The parser at work after parse returned r.
parsedInto(c, r) ==
    [c EXCEPT !.stage = "parsed",
              !.was = c.stage,
              !.threw = r.threw,
              !.packets = r.packets]

CodecParse ==
    /\ codec.stage \in {"encoded", "joined", "corrupted"}
    /\ codec' = parsedInto(codec, parse(codec.version, ParserKey, codec.buffer))
    /\ UNCHANGED instance

CodecInit ==
    /\ Constructed
    /\ Built
    /\ version = "3.3"
    /\ issueGetOnConnect
    /\ quietPeer = TRUE
    /\ tog = NoToggle
    /\ codec \in [stage : {"options"}, was : {"options"}, version : ParserVersions,
                  options : EncodeOptions, second : {<<>>}, damage : {""},
                  buffer : {<<>>}, threw : {FALSE}, packets : {<<>>}]

CodecNext ==
    \/ CodecEncode
    \/ CodecConcat
    \/ CodecCorrupt
    \/ CodecParse

CodecSpec == CodecInit /\ [][CodecNext]_vars

\* An application that calls toggle() on a device that answers every frame it
\* can read and changes its data point only when it is set: the application
\* may connect first, the heartbeat runs, and the socket stays up.
TogCommit(n, t) ==
    /\ n._currentSequenceN <= TogMaxSeq
    /\ Len(n.reqs) <= TogMaxReq
    /\ Assign(n)
    /\ tog' = t

TogConnect == ~_connected /\ ~connectPromise /\ TogCommit(connect(S), tog)

TogSockConnect == client = "connecting" /\ TogCommit(onConnect(S), tog)

TogPing ==
    /\ _pingPongInterval
    /\ _pingPongTimeout = "null"
    /\ TogCommit(_sendPing(S), tog)

Toggle ==
    /\ tog.pc \in {"idle", "done"}
    /\ tog.runs < MaxToggles
    /\ TogCommit(toggle(S, tog).s, toggle(S, tog).t)

DeviceReads ==
    /\ client = "open"
    /\ tog.next <= Len(written)
    /\ \E statusSeq \in BOOLEAN, statusFirst \in BOOLEAN :
          TogCommit(S, deviceReads(S, tog, statusSeq, statusFirst))

\* 'data' with the device's next packet, and toggle()'s continuation when the
\* promise it awaits was resolved by it.
Deliver ==
    /\ client = "open"
    /\ tog.out # <<>>
    /\ LET r == toggleResumed(onData(S, Head(tog.out)),
                              [tog EXCEPT !.out = Tail(@)], Head(tog.out))
       IN TogCommit(r.s, r.t)

ToggleInit ==
    /\ Constructed
    /\ Built
    /\ quietPeer = TRUE
    /\ codec = Idle
    /\ tog \in {[NoToggle EXCEPT !.dp = v, !.dp0 = v] : v \in {"true", "false"}}

ToggleNext ==
    \/ TogConnect
    \/ TogSockConnect
    \/ TogPing
    \/ Toggle
    \/ DeviceReads
    \/ Deliver

ToggleSpec == ToggleInit /\ [][ToggleNext]_vars

\* _send through all its retries: one call on a device whose connect fails
\* (socket error, connect timeout, handshake reply with a wrong HMAC) or
\* succeeds, and whose write may throw.
RetryMaxAtt == 8   \* attempts one _send makes
RetryMaxSeq == 9   \* largest value _currentSequenceN takes
RetryMaxReq == 1   \* calls made by the application

RetryCommit(n) ==
    /\ n._currentSequenceN <= RetryMaxSeq
    /\ Cardinality({i \in 1..Len(n.reqs) : ~n.reqs[i].auto}) <= RetryMaxReq
    /\ \A i \in 1..Len(n.reqs) : n.reqs[i].att <= RetryMaxAtt
    /\ Assign(n)
    /\ UNCHANGED tog

\* An attempt whose this.client.write(buffer) throws: the catch rejects the
\* attempt's promise.
attemptThrows(s, i) == failAttempt([connect(s) EXCEPT !.reqs[i].att = @ + 1], i)

RetryCall ==
    \/ RetryCommit(get(S, FALSE))
    \/ RetryCommit(refresh(S, FALSE))
    \/ RetryCommit(set(S, [args |-> "entries", wait |-> TRUE]))

RetrySockConnect == client = "connecting" /\ RetryCommit(onConnect(S))

RetrySockError == client \in {"connecting", "open"} /\ RetryCommit(onError(S))

RetrySockTimeout == connTimer /\ RetryCommit(onTimeout(S))

RetryHandshake ==
    /\ client = "open"
    /\ \E pkt \in Packets :
         /\ pkt.cmd = "SESS_KEY_NEG_RES"
         /\ Echoes(pkt)
         /\ RetryCommit(onData(S, pkt))

RetryAgain ==
    \E i \in 1..Len(reqs) : reqs[i].send = "backoff" /\ RetryCommit(attempt(S, i))

RetryWriteThrows ==
    \E i \in 1..Len(reqs) :
        /\ reqs[i].send = "backoff"
        /\ _connected
        /\ RetryCommit(attemptThrows(S, i))

RetryConnect == RetryCommit(connect(S))

RetryInit == Constructed /\ Built /\ quietPeer = TRUE /\ codec = Idle /\ tog = NoToggle

RetryNext ==
    \/ RetryCall
    \/ RetryConnect
    \/ RetrySockConnect
    \/ RetrySockError
    \/ RetrySockTimeout
    \/ RetryHandshake
    \/ RetryAgain
    \/ RetryWriteThrows

RetrySpec == RetryInit /\ [][RetryNext]_vars

\* An application that calls get() on a device of any version, 3.2 included,
\* that answers every frame it can read; the application may connect first,
\* the fallback set may time out, and the socket stays up.
GetCall ==
    /\ tog.pc \in {"idle", "done", "failed"}
    /\ tog.runs < MaxGets
    /\ \E schema \in BOOLEAN :
          TogCommit(getCalled(S, tog, schema).s, getCalled(S, tog, schema).t)

QueriedDeviceReads ==
    /\ client = "open"
    /\ tog.next <= Len(written)
    /\ \E q \in QueryReplies, c \in SetReplies,
          byStatus \in BOOLEAN, statusSeq \in BOOLEAN :
          TogCommit(S, queriedDeviceReads(S, tog, q, c, byStatus, statusSeq))

\* 'data' with the device's next packet, and get()'s continuation when the
\* promise it awaits was resolved by it.
GetDeliver ==
    /\ client = "open"
    /\ tog.out # <<>>
    /\ LET r == getResumed(onData(S, Head(tog.out)),
                           [tog EXCEPT !.out = Tail(@)], Head(tog.out))
       IN TogCommit(r.s, r.t)

\* pTimeout's fallback of the set get waits for, and get()'s continuation.
GetSetTimeout ==
    \E i \in 1..Len(reqs) :
       /\ reqs[i].tmr
       /\ LET r == getResumed(setTimedOut(S, i), tog, Reply("STATUS", 0, "false", "undefined"))
          IN TogCommit(r.s, r.t)

GetInit ==
    /\ version \in Versions \cup {"3.2"}
    /\ issueGetOnConnect = FALSE
    /\ Unconnected
    /\ Built
    /\ quietPeer = TRUE
    /\ codec = Idle
    /\ tog \in {[NoGet EXCEPT !.dp = v] : v \in {"true", "false"}}

GetNext ==
    \/ TogConnect
    \/ TogSockConnect
    \/ GetCall
    \/ QueriedDeviceReads
    \/ GetDeliver
    \/ GetSetTimeout

GetSpec == GetInit /\ [][GetNext]_vars

----------------------------------------------------------------------------
\* Properties

Reqs == 1..Len(reqs)

IsSet(i) == reqs[i].kind = "set"

\* C1: within one session the sequence numbers of the frames written to the
\* socket are strictly increasing in write order (so no number is carried by
\* two frames).
C1_SequenceStrictlyIncreasing ==
    \A j, k \in 1..Len(written) :
        j < k => written[j].seq < written[k].seq

\* C2: of two set() calls, the frame of the one called first is written
\* before the frame of the one called second.
C2_SetFramesInCallOrder ==
    \A j, k \in 1..Len(setWrites) :
        j < k => setWrites[j] < setWrites[k]

\* A set whose task has started and whose promise has not settled.
Outstanding(i) ==
    IsSet(i) /\ reqs[i].send # "idle" /\ reqs[i].p = "pending"

\* C3: at most one set is outstanding at a time: no set's frame is written
\* while the promise of an earlier set() is pending, no two sets are
\* outstanding together, and the outstanding set is the one in the
\* set-resolver slot.
C3_OneSetOutstanding ==
    /\ \A k \in 1..Len(setWrites) :
         \A i \in Reqs :
             (i < setWrites[k] /\ IsSet(i)) => reqs[i].p # "pending"
    /\ \A i, j \in Reqs : (Outstanding(i) /\ Outstanding(j)) => i = j
    /\ \A i \in Reqs : Outstanding(i) => (_setResolver = i /\ setRunning = i)

\* C3's case: a second set was written after a first one that waited for its
\* response, and now holds the slot.
C3_Witness ==
    /\ setWrites = <<1, 2>>
    /\ reqs[1].wait
    /\ Outstanding(2)
    /\ _setResolver = 2

\* The response timeout of set i fires in this step while its frame is
\* written and its response awaited (only setTimedOut stops the timer of a
\* written set by rejecting it).
TimesOut(i) ==
    /\ IsSet(i)
    /\ reqs[i].send = "written"
    /\ reqs[i].tmr
    /\ ~reqs'[i].tmr
    /\ reqs'[i].p = "rejected"

\* C4: when the response timeout of a set that waits for its response fires,
\* the set is rejected, `error` is emitted, the set-resolver slot is cleared,
\* the pending table is left without an entry for that set, and the instance
\* stays Connected.
C4_TimedOutSetLeavesNothing ==
    [][\A i \in Reqs :
          TimesOut(i) =>
              /\ setTimedOut(S, i).emitted = <<"error">>
              /\ _setResolver' # i
              /\ \A e \in _resolvers' : e.req # i
              /\ _connected' = _connected]_vars

\* C5: when the instance leaves Connected (disconnect() ran) while a set is
\* in flight (frame written, response awaited), that set is rejected by that
\* step.
C5_DisconnectFailsInFlightSet ==
    [][(_connected /\ ~_connected') =>
          \A i \in Reqs :
              (Outstanding(i) /\ reqs[i].wait /\ reqs[i].send = "written")
                  => reqs'[i].p = "rejected"]_vars

\* C6: when disconnect() has run on a Connected instance the pending table is
\* empty and every get / refresh whose reply was awaited has been rejected.
C6_DisconnectEmptiesPendingTable ==
    [][(_connected /\ ~_connected') =>
          /\ _resolvers' = {}
          /\ \A i \in Reqs :
                (~IsSet(i) /\ reqs[i].send = "written" /\ reqs[i].p = "pending")
                    => reqs'[i].p = "rejected"]_vars

\* C7: disconnect() is idempotent: on an instance that is not Connected it
\* changes no field and emits nothing, and a Connected phase ends with exactly
\* one `disconnected` event, never followed by a second one before the next
\* `connected`.
C7_DisconnectIdempotent ==
    [][/\ ~_connected => disconnect(S) = S
       /\ ~_connected' => disconnect(disconnect(S)) = disconnect(S)
       /\ (_connected /\ ~_connected') => discCount' = 1
       /\ _connected' => discCount' = 0
       /\ discCount' <= 1]_vars

\* C7's case: a Connected phase has ended (its `disconnected` was emitted) and
\* the socket is gone, so a further disconnect() or close meets an instance
\* that is not Connected.
C7_Witness ==
    /\ ~_connected
    /\ discCount = 1
    /\ client = "destroyed"
    /\ disconnect(S).emitted = <<>>

\* A heartbeat frame was written in this Connected phase.
PingWritten == \E k \in 1..Len(written) : written[k].cmd = "HEART_BEAT"

\* C8: in every Connected phase, once a heartbeat was written and while the
\* device has not answered one, the pong timer whose expiry disconnects the
\* instance is running.
C8_UnansweredPingIsTimed ==
    (_connected /\ PingWritten /\ ~phasePonged) => _pingPongTimeout = "armed"

\* C9: a get or refresh whose frame was written and whose reply has not
\* arrived has a response timeout running that will reject it.
C9_PendingQueryIsTimed ==
    \A i \in Reqs :
        (~IsSet(i) /\ reqs[i].send = "written" /\ reqs[i].p = "pending")
            => reqs[i].tmr

\* C10: while a connect attempt is unsettled (TCP connect or session-key
\* handshake in progress) its connect timeout is armed, so the attempt is
\* rejected when that time runs out.
C10_PendingConnectIsTimed == connectPromise => connTimer

\* C11: connect() on a Connected instance, or while a connect is in flight,
\* creates no socket and changes nothing (it hands out the resolved promise,
\* or the pending one), and when the pending connect settles every attempt
\* that waited on it is settled by that one outcome: all write their frame, or
\* all fail.
C11_ConnectSharesOneAttempt ==
    [][/\ (_connected \/ connectPromise) => connect(S) = S
       /\ (connectPromise /\ ~connectPromise') =>
            /\ waiters' = <<>>
            /\ \/ \A k \in 1..Len(waiters) :
                    reqs'[waiters[k]].send = "written"
               \/ \A k \in 1..Len(waiters) :
                    reqs'[waiters[k]].send \in {"backoff", "failed"}]_vars

\* C11's case: two callers wait on the connect that one of them started.
C11_Witness ==
    /\ connectPromise
    /\ ~_connected
    /\ Len(waiters) = 2
    /\ connect(S).sockets = 0

\* The instance after the device has closed the socket in use.
Closed == onClose([S EXCEPT !.client = "destroyed"])

\* The instance after a connect() that follows the close and whose socket
\* connects.
Reopened == onConnect(connect(Closed))

\* The device's reply to the SESS_KEY_NEG_START written by Reopened.
GoodRes ==
    [cmd |-> "SESS_KEY_NEG_RES", seq |-> Reopened._currentSequenceN,
     payload |-> "dps1", hmacOk |-> TRUE]

\* C12: when the device closes the socket of a Connected instance the
\* instance is Disconnected (isConnected() false, `disconnected` emitted
\* once), the next connect() opens a new socket, and that connect reaches
\* Connected again: on the socket's connect for v3.3, on the handshake reply
\* for v3.4/3.5.
C12_CloseThenReconnect ==
    (_connected /\ client = "open") =>
        /\ ~isConnected(Closed)
        /\ Closed.emitted = <<"disconnected">>
        /\ Closed.client = "destroyed"
        /\ connect(Closed).sockets = 1
        /\ connect(Closed).client = "connecting"
        /\ IF NeedsHandshake(version)
           THEN isConnected(onData(Reopened, GoodRes))
           ELSE isConnected(Reopened)

\* C12's case: the instance is Connected on a later socket than the one a
\* written request went out on, so an earlier Connected phase has ended and
\* the instance has reconnected.
C12_Witness ==
    /\ _connected
    /\ client = "open"
    /\ \E i \in Reqs :
         /\ reqs[i].send = "written"
         /\ \A k \in 1..Len(written) : written[k].req # i
    /\ ~isConnected(Closed)

\* C13: for v3.4/3.5 the instance becomes Connected only on a handshake
\* reply that answers the SESS_KEY_NEG_START of the connection attempt in
\* progress: that START was written on the socket in use, _tmpLocalKey is its
\* nonce, and the step installs the session key.
C13_ConnectedOnlyByOwnHandshake ==
    [][(NeedsHandshake(version) /\ ~_connected /\ _connected') =>
          /\ connectPromise
          /\ client = "open"
          /\ startSeq(S) # 0
          /\ ~leaked.keyed
          /\ sessionKey']_vars

\* A handshake reply to the START on the socket whose HMAC differs from
\* cipher.hmac(_tmpLocalKey).
BadRes ==
    [cmd |-> "SESS_KEY_NEG_RES", seq |-> startSeq(S),
     payload |-> "dps1", hmacOk |-> FALSE]

\* The state after the 'data' listener has handled BadRes.
Mismatched == onData(S, BadRes)

\* C14: a SESS_KEY_NEG_RES whose HMAC check fails rejects the connect in
\* flight, emits `error`, installs no session key, and tears the connection
\* down: the socket is destroyed and the instance is Disconnected.
C14_HmacMismatchTearsDown ==
    (NeedsHandshake(version) /\ connectPromise /\ client = "open"
       /\ startSeq(S) # 0) =>
        /\ ~Mismatched.connectPromise
        /\ Mismatched.waiters = <<>>
        /\ "error" \in {Mismatched.emitted[k] : k \in 1..Len(Mismatched.emitted)}
        /\ ~Mismatched.sessionKey
        /\ ~isConnected(Mismatched)
        /\ Mismatched.client = "destroyed"

\* C15: for v3.4/3.5 every get / set / refresh frame on the socket of a
\* Connected instance was encrypted and authenticated under the session key of
\* that session, whenever the call that built it was made.
C15_FramesUnderSessionKey ==
    (NeedsHandshake(version) /\ _connected) =>
        \A k \in 1..Len(written) :
            written[k].req # 0 => written[k].enc = "session"

\* C16: the cipher's session key is null whenever the instance is not
\* Connected, so every SESS_KEY_NEG_START is encoded under the local key; the
\* key is set only in the step that takes a v3.4/3.5 instance with a connect
\* in flight to Connected, having written SESS_KEY_NEG_FINISH; it is not set
\* again while it is set; and the step that leaves Connected clears it.
C16_SessionKeyOnlyWhileConnected ==
    /\ [](~_connected => ~sessionKey)
    /\ [](\A k \in 1..Len(written) :
             written[k].cmd = "SESS_KEY_NEG_START" => written[k].enc = "local")
    /\ [][/\ (~sessionKey /\ sessionKey') =>
               /\ NeedsHandshake(version) /\ connectPromise
               /\ ~_connected /\ _connected'
               /\ \E k \in 1..Len(written') :
                     written'[k].cmd = "SESS_KEY_NEG_FINISH"
          /\ (sessionKey /\ sessionKey') =>
               \A i \in 1..Len(reqs) :
                  reqs[i].enc = "session" => reqs'[i].enc = "session"
          /\ (_connected /\ ~_connected') => ~sessionKey']_vars

\* C17: whenever the promise of a find() call is settled (by a matching
\* broadcast, by the timeout, by a broadcast neither parser accepts, or by a
\* listener error) neither of the call's two UDP sockets is still bound.
C17_FindClosesListeners ==
    \A i \in 1..Len(finds) :
        finds[i].p # "pending" =>
            /\ finds[i].listener # "bound"
            /\ finds[i].listenerEncrypted # "bound"

\* The sockets of find call i are bound: its message handlers are attached.
Listening(i) ==
    finds[i].listener = "bound" \/ finds[i].listenerEncrypted = "bound"

\* Broadcast m parses to an object and carries the id or the ip of the device
\* record.
Matching(m) ==
    /\ m.parse \in {"udp", "dev"}
    /\ device.id = m.gwId \/ device.ip = m.ip

\* C18: a find() without `all` (1) resolves true at once, creating no
\* socket, when id and ip are both set; (2) is resolved true by a matching
\* broadcast its listeners receive, the record's ip, id and gwID being those
\* of the broadcast; (3) stays under its timeout while pending, and the
\* timeout rejects it; (4) never changes once settled.
C18_FindSettlesOnce ==
    /\ [](built = "ok" /\ isValidString(device.id) /\ isValidString(device.ip)
            => LET r == find(S, FALSE).finds IN
               /\ r[Len(r)].p = "true"
               /\ r[Len(r)].listener = "none"
               /\ r[Len(r)].listenerEncrypted = "none")
    /\ [](\A i \in 1..Len(finds) : \A m \in Broadcasts :
             (~finds[i].all /\ Listening(i) /\ Matching(m)) =>
                LET r == broadcastHandler(S, i, m) IN
                /\ r.finds[i].p = "true"
                /\ r.device.id = m.gwId
                /\ r.device.ip = m.ip
                /\ r.device.gwID = m.gwId)
    /\ [](\A i \in 1..Len(finds) :
             (~finds[i].all /\ finds[i].p = "pending") =>
                /\ finds[i].timer
                /\ findTimeout(S, i).finds[i].p = "rejected")
    /\ [][\A i \in 1..Len(finds) :
             finds[i].p # "pending" => finds'[i].p = finds[i].p]_vars

\* C19: a find({all: true}) is settled by nothing but its timeout (it is
\* pending or resolved with a list, and no message or error settles it); its
\* handler leaves the device's id and ip as they are and records the pair of
\* every broadcast it parses; the timeout resolves it with the recorded list,
\* which never holds the same (id, ip) twice.
C19_FindAllWaitsForTimeout ==
    /\ \A i \in 1..Len(finds) :
          finds[i].all =>
             /\ finds[i].p \in {"pending", "list"}
             /\ finds[i].timer =>
                   /\ findTimeout(S, i).finds[i].p = "list"
                   /\ findTimeout(S, i).finds[i].list = foundDevices
             /\ Listening(i) =>
                   /\ listenerError(S, i).finds[i].p = finds[i].p
                   /\ \A m \in Broadcasts :
                         LET r == broadcastHandler(S, i, m) IN
                         /\ r.finds[i].p = finds[i].p
                         /\ r.device.id = device.id
                         /\ r.device.ip = device.ip
                         /\ m.parse \in {"udp", "dev"} => known(r, m)
    /\ \A j, k \in 1..Len(foundDevices) :
          foundDevices[j] = foundDevices[k] => j = k

\* C20: once new TuyaDevice(options) has run, it has thrown if neither id nor
\* ip is a non-empty string, it has thrown if the key is missing or its length
\* is not 16, and it has returned an instance if id or ip is a non-empty
\* string and the key is a string of 16 characters.
C20_ConstructorChecksArguments ==
    built # "no" =>
        /\ ~(isValidString(options.id) \/ isValidString(options.ip))
              => built = "thrown"
        /\ (options.key.t = "undefined" \/ options.key.len # 16)
              => built = "thrown"
        /\ ( /\ isValidString(options.id) \/ isValidString(options.ip)
             /\ options.key.t = "string" /\ options.key.len = 16 )
              => built = "ok"

\* C20 witness: the constructor threw on a key of 17 characters although an
\* ip was given.
C20_Witness ==
    /\ built = "thrown"
    /\ isValidString(options.ip)
    /\ options.key.t = "string" /\ options.key.len = 17

\* C21: set() with no argument or with an empty options object throws and
\* leaves the sequence counter, the set queue, the pending table, the
\* resolver slot, the socket and the frames written as they were; no call is
\* recorded and no socket is created.
C21_SetWithoutArgumentsFails ==
    \A o \in {NoArgument, EmptyOptions} :
        LET r == set(S, o) IN
        /\ r.thrown
        /\ r._currentSequenceN = _currentSequenceN
        /\ r._setQueue = _setQueue
        /\ r.setRunning = setRunning
        /\ r._resolvers = _resolvers
        /\ r._setResolver = _setResolver
        /\ r.client = client
        /\ r.connectPromise = connectPromise
        /\ r.written = written
        /\ r.reqs = reqs
        /\ r.sockets = 0

\* C21 witness: the check is made on a Connected instance whose queue could
\* take the set (no task running, room in the exploration for one more call).
C21_Witness ==
    /\ _connected
    /\ setRunning = 0
    /\ Len(reqs) < MaxReq
    /\ _currentSequenceN < MaxSeq
    /\ set(S, NoArgument).thrown
    /\ setUnchecked(S, NoArgument).written # written


\* C22: for every version from 3.1 to 3.5, every defined command and every
\* payload, parsing the buffer that encode produced, with the parser that
\* produced it, gives exactly one packet with the command, the sequence
\* number and the payload that were encoded.
C22_EncodeParseRoundTrip ==
    (codec.stage = "parsed" /\ codec.was = "encoded") =>
        /\ ~codec.threw
        /\ Len(codec.packets) = 1
        /\ codec.packets[1].commandByte = codec.options.commandByte
        /\ codec.packets[1].sequenceN = codec.options.sequenceN
        /\ codec.packets[1].payload = codec.options.data

\* C23: parsing two encoded frames joined into one buffer gives exactly two
\* packets, in order, each the packet that parsing its frame alone gives.
alone(o) == parse(codec.version, ParserKey, parserEncode(codec.version, ParserKey, o).buffer)

C23_TwoFramesTwoPackets ==
    (codec.stage = "parsed" /\ codec.was = "joined") =>
        /\ ~codec.threw
        /\ Len(codec.packets) = 2
        /\ ~alone(codec.options).threw
        /\ ~alone(codec.second[1]).threw
        /\ codec.packets[1] = alone(codec.options).packets[1]
        /\ codec.packets[2] = alone(codec.second[1]).packets[1]

\* C24: parse throws, and gives no packet, on every corrupted frame: one cut
\* to 23 bytes, one whose prefix, suffix or integrity trailer (the bytes
\* before the suffix) was overwritten, and one cut short of its declared
\* length.
C24_CorruptedFrameNeverParses ==
    (codec.stage = "parsed" /\ codec.was = "corrupted") =>
        codec.threw /\ codec.packets = <<>>

\* C25: encode throws, and produces no bytes, for a command that is no value
\* of the command table, under every version; and every frame the instance
\* has written, and every call registered in the pending table, carries a
\* command of the table.
UnknownOptions == {o \in EncodeOptions : o.commandByte \notin CommandValues}
inTable(cmd) == cmd \in DOMAIN CommandType /\ CommandType[cmd] \in CommandValues

C25_UnknownCommandNeverEncoded ==
    /\ \A v \in ParserVersions, o \in UnknownOptions :
          parserEncode(v, ParserKey, o) = [threw |-> TRUE, buffer |-> <<>>]
    /\ \A j \in 1..Len(written) : inTable(written[j].cmd)
    /\ \A e \in _resolvers : inTable(reqs[e.req].cmd)

C25_Witness ==
    /\ parserEncode(version, ParserKey,
                    [data |-> PlainObject, commandByte |-> UnknownCommand,
                     sequenceN |-> 2, encrypted |-> FALSE]).threw
    /\ written # <<>>
    /\ _resolvers # {}

\* C26: when parse throws on an inbound chunk, the listener emits `error`
\* once and nothing else: the socket, _connected, the pending table, the set
\* resolver and both heartbeat timers are those of before, and so is the rest
\* of the instance, so that the next chunk is handled as it would have been.
C26_ParseErrorIsLocal ==
    client = "open" =>
        \A b \in BadChunks :
            parse(version, getKey(S), b).threw =>
                LET n == parseFailed(S) IN
                /\ n.emitted = <<"error">>
                /\ n.client = client
                /\ n._connected = _connected
                /\ n._resolvers = _resolvers
                /\ n._setResolver = _setResolver
                /\ n._pingPongInterval = _pingPongInterval
                /\ n._pingPongTimeout = _pingPongTimeout
                /\ [n EXCEPT !.emitted = <<>>] = S

C26_Witness ==
    /\ _connected
    /\ client = "open"
    /\ _resolvers # {}
    /\ _setResolver # 0
    /\ _pingPongInterval
    /\ \E b \in BadChunks : parse(version, getKey(S), b).threw
    /\ parseFailed(S).emitted = <<"error">>

\* C28: whenever the instance is Disconnected (not connected and no connect in
\* flight), its socket is neither connecting nor open, no earlier socket of
\* it is open, and neither the heartbeat interval nor the pong timer is armed.
C28_NothingLingersWhenDisconnected ==
    (~isConnected(S) /\ ~connectPromise) =>
        /\ client \notin {"connecting", "open"}
        /\ leaked = NoLeak
        /\ ~_pingPongInterval
        /\ _pingPongTimeout # "armed"

\* C29: for a version without handshake no SESS_KEY_NEG frame is written and
\* the socket's 'connect' makes the instance Connected; for v3.4/3.5 the
\* first frame written on the socket is SESS_KEY_NEG_START, the second is
\* SESS_KEY_NEG_FINISH, no other frame is one of them, 'connect' alone does
\* not make the instance Connected, and the instance is Connected, and
\* `connected` emitted, only when FINISH has been written.
Negotiation == {"SESS_KEY_NEG_START", "SESS_KEY_NEG_FINISH"}

C29_HandshakeBeforeConnected ==
    /\ ~NeedsHandshake(version) =>
          /\ \A j \in 1..Len(written) : written[j].cmd \notin Negotiation
          /\ client = "connecting" =>
                /\ onConnect(S)._connected
                /\ \E k \in 1..Len(onConnect(S).emitted) :
                       onConnect(S).emitted[k] = "connected"
    /\ NeedsHandshake(version) =>
          /\ \A j \in 1..Len(written) :
                /\ j = 1 <=> written[j].cmd = "SESS_KEY_NEG_START"
                /\ j = 2 <=> written[j].cmd = "SESS_KEY_NEG_FINISH"
          /\ _connected => Len(written) >= 2
          /\ client = "connecting" =>
                /\ ~onConnect(S)._connected
                /\ onConnect(S).emitted = <<>>
          /\ \A pkt \in Packets :
                (client = "open" /\ Echoes(pkt)) =>
                  LET n == onData(S, pkt) IN
                  (\E k \in 1..Len(n.emitted) : n.emitted[k] = "connected") =>
                     /\ Len(n.written) >= 2
                     /\ n.written[1].cmd = "SESS_KEY_NEG_START"
                     /\ n.written[2].cmd = "SESS_KEY_NEG_FINISH"

----------------------------------------------------------------------------
\* C30: a STATUS packet that arrives while a set is awaiting its response
\* resolves that set's promise with the packet's payload and empties the
\* set-resolver slot, and every STATUS packet emits exactly one event:
\* `dp-refresh` if its dps map lacks index 1, otherwise `data`.
C30_StatusResolvesAwaitingSet ==
    client = "open" =>
      \A pkt \in Packets :
        pkt.cmd = "STATUS" =>
          LET n == _packetHandler(S, pkt)
              i == _setResolver
          IN /\ n.emitted = <<IF pkt.payload = "dpsNo1"
                               THEN "dp-refresh" ELSE "data">>
             /\ (i # 0 /\ reqs[i].p = "pending") =>
                   /\ n.reqs[i].p = "resolved"
                   /\ n.resolvedWith = <<[req |-> i, data |-> pkt.payload]>>
                   /\ n._setResolver = 0

\* A set is awaiting its response on an open socket and a STATUS packet the
\* device may send resolves it.
C30_Witness ==
    /\ client = "open"
    /\ _setResolver # 0
    /\ reqs[_setResolver].p = "pending"
    /\ \E pkt \in Packets :
          /\ pkt.cmd = "STATUS"
          /\ pkt.payload = "dpsNo1"
          /\ Echoes(pkt)
          /\ _packetHandler(S, pkt).reqs[_setResolver].p = "resolved"
          /\ _packetHandler(S, pkt).emitted = <<"dp-refresh">>

----------------------------------------------------------------------------
\* C27: toggle performs get, then set with the negation of the value read,
\* then get, in that order, and returns the value of the last get; on a
\* boolean data point that nothing else changes a toggle leaves the device
\* at the negation of the value it had, so two successive toggles restore
\* the device's original value.
C27_ToggleGetSetGet ==
    /\ tog.pc = "idle" => tog.calls = <<>>
    /\ tog.pc = "get1" => tog.calls = <<"get">>
    /\ tog.pc = "set" =>
          /\ tog.calls = <<"get", "set">>
          /\ tog.status = tog.at
          /\ tog.sent = (IF tog.status = "true" THEN "false" ELSE "true")
    /\ tog.pc \in {"get2", "done"} =>
          /\ tog.calls = <<"get", "set", "get">>
          /\ tog.sent = (IF tog.status = "true" THEN "false" ELSE "true")
    /\ tog.pc = "done" =>
          /\ tog.result = tog.got
          /\ tog.result = tog.dp
          /\ tog.result = (IF tog.at = "true" THEN "false" ELSE "true")
          /\ tog.runs = 1 => tog.dp # tog.dp0
          /\ tog.runs = 2 => tog.dp = tog.dp0

\* Two toggles have returned.
C27_Witness ==
    /\ tog.pc = "done"
    /\ tog.runs = 2
    /\ tog.calls = <<"get", "set", "get">>
    /\ tog.dp = tog.dp0

----------------------------------------------------------------------------
\* C31: a DP_REFRESH reply resolves the pending refresh() call it answers, in
\* every state, also while a set is awaiting its response, and emits neither
\* `data` nor `dp-refresh`.
C31_RefreshReplyResolvesRefresh ==
    client = "open" =>
      \A pkt \in Packets :
        (pkt.cmd = "DP_REFRESH" /\ Echoes(pkt)) =>
          LET n == _packetHandler(S, pkt) IN
          /\ n.emitted = <<>>
          /\ \A e \in _resolvers :
               (/\ e.key = pkt.seq
                /\ reqs[e.req].kind = "refresh"
                /\ reqs[e.req].p = "pending") => n.reqs[e.req].p = "resolved"

----------------------------------------------------------------------------
\* C32: a HEART_BEAT packet emits only `heartbeat`, clears the pong timer and
\* records the pong; a CONTROL / CONTROL_NEW packet with an empty payload
\* emits nothing; neither resolves or removes an entry of the pending table
\* or the set resolver, whatever its sequence number.
Pongs == [cmd : {"HEART_BEAT"}, seq : 1..MaxSeq, payload : {"false"}, hmacOk : {TRUE}]
Acks == [cmd : {"CONTROL", "CONTROL_NEW"}, seq : 1..MaxSeq, payload : {"false"},
         hmacOk : {TRUE}]

C32_PongAndAckResolveNothing ==
    client = "open" =>
      /\ \A pkt \in Pongs :
           onData(S, pkt) = [S EXCEPT !.emitted = <<"heartbeat">>,
                                      !._pingPongTimeout = "null",
                                      !.phasePonged = TRUE]
      /\ \A pkt \in Acks : onData(S, pkt) = S

\* A set awaits its response, its frame's entry is in the pending table, the
\* pong timer runs, and the acknowledgement and the pong carry the sequence
\* number of that entry.
C32_Witness ==
    /\ client = "open"
    /\ _connected
    /\ _setResolver # 0
    /\ _pingPongTimeout = "armed"
    /\ \E e \in _resolvers :
         /\ e.req = _setResolver
         /\ reqs[e.req].p = "pending"
         /\ \E a \in Acks, h \in Pongs :
              /\ a.seq = e.key
              /\ h.seq = e.key
              /\ onData(S, a)._resolvers = _resolvers
              /\ onData(S, h)._resolvers = _resolvers
              /\ onData(S, h)._pingPongTimeout = "null"

----------------------------------------------------------------------------
\* C33: an inbound packet removes an entry of the pending table only by
\* invoking that entry's own completion: no packet removes an entry whose
\* awaiter has not been completed.
C33_EntryRemovedOnlyWhenCompleted ==
    client = "open" =>
      \A pkt \in Packets :
        Echoes(pkt) =>
          LET n == onData(S, pkt) IN
          \A e \in _resolvers :
            (reqs[e.req].send = "written" /\ e \notin n._resolvers) =>
               n.reqs[e.req].send = "done"

----------------------------------------------------------------------------
\* C34: once the promise of a get, refresh or set has settled the pending
\* table holds no entry of that call; so the table is empty whenever no call
\* is outstanding.
C34_SettledCallLeavesNoEntry ==
    /\ \A e \in _resolvers : reqs[e.req].p = "pending"
    /\ (\A i \in 1..Len(reqs) : reqs[i].p # "pending") => _resolvers = {}

----------------------------------------------------------------------------
\* C35: _send makes at most 6 attempts (1 plus 5 retries).  An attempt that
\* fails because connect() rejects or the write throws is retried while
\* retries are left; a retry calls connect() before it writes, so that a
\* request frame is written only on a connected instance (for v3.4/3.5: after
\* the handshake); after the sixth failing attempt _send's promise rejects.
Failed(n, i, made) ==
    IF made <= Retries
    THEN n.reqs[i].send = "backoff" /\ n.reqs[i].p = reqs[i].p
    ELSE /\ n.reqs[i].send = "failed"
         /\ (reqs[i].kind # "set" /\ reqs[i].p = "pending") => n.reqs[i].p = "rejected"

----------------------------------------------------------------------------
\* C36: the sequence counter is re-synced to the handshake reply's sequenceN
\* minus 1 only when the handshake succeeds, so that SESS_KEY_NEG_FINISH
\* carries the reply's sequenceN; a SESS_KEY_NEG_RES that is ignored or whose
\* HMAC does not verify leaves the counter unchanged.
C36_CounterResyncedOnSuccessOnly ==
    client = "open" =>
      \A pkt \in Packets :
        (pkt.cmd = "SESS_KEY_NEG_RES" /\ Echoes(pkt)) =>
          LET n == _packetHandler(S, pkt) IN
          IF connectPromise /\ pkt.hmacOk
          THEN /\ Len(n.written) > Len(written)
               /\ n.written[Len(written) + 1].cmd = "SESS_KEY_NEG_FINISH"
               /\ n.written[Len(written) + 1].seq = pkt.seq
          ELSE n._currentSequenceN = _currentSequenceN

----------------------------------------------------------------------------
\* The frames of kind cmds that were written for calls made after the first
\* k calls.
FramesSince(k, cmds) ==
    {j \in 1..Len(written) : written[j].req > k /\ written[j].cmd \in cmds}

\* The first three parts of C37: a get that has been called has fallen back
\* to set exactly if the version is 3.2 or the reply to its query is one of
\* the two error strings; for version 3.2 no DP_QUERY frame is ever written;
\* a get that has not fallen back has had no CONTROL frame written.
FallsBackExactly ==
    /\ tog.pc # "idle" =>
         tog.fellBack = (\/ version = "3.2"
                         \/ tog.reply = "json obj data unvalid"
                         \/ tog.reply = "data format error")
    /\ version = "3.2" => FramesSince(0, {"DP_QUERY", "DP_QUERY_NEW"}) = {}
    /\ tog.pc # "idle" /\ ~tog.fellBack =>
         FramesSince(tog.reqs0, {"CONTROL", "CONTROL_NEW"}) = {}

\* C37 as stated: get() falls back to set exactly when the version is 3.2
\* (and then writes no DP_QUERY frame) or the reply to its query is "json obj
\* data unvalid" or "data format error", writes no CONTROL frame otherwise,
\* and returns the result of the fallback set.
C37_GetFallsBackToSet ==
    /\ FallsBackExactly
    /\ tog.pc = "done" /\ tog.fellBack => tog.result = tog.setData

\* C37 as the code has it: get() falls back to set exactly when the version
\* is 3.2 (and then writes no DP_QUERY frame) or the reply to its query is
\* one of the two error strings, and writes no CONTROL frame otherwise; from
\* the fallback set's result it returns the whole result only when that is
\* not an object or schema is true, and else the value of the requested
\* property in the result's dps.
C37_GetFallbackReturnsProperty ==
    /\ FallsBackExactly
    /\ tog.pc = "done" /\ tog.fellBack =>
         tog.result = IF tog.schema \/ tog.setData.payload = "devid not found"
                      THEN tog.setData
                      ELSE [property |-> tog.setData.dps]

\* A get that fell back after an error reply to its query has returned the
\* property of the object its set resolved with.
C37_Witness ==
    /\ tog.pc = "done"
    /\ tog.fellBack
    /\ version # "3.2"
    /\ tog.reply = "data format error"
    /\ ~tog.schema
    /\ tog.setData.payload = "dps1"
    /\ tog.result = [property |-> tog.dp]

----------------------------------------------------------------------------
\* The payload of a frame encoded for v3.1 to v3.3: what lies between the
\* four header words and the CRC and suffix.
PayloadOf(b) == SubSeq(b, 5, Len(b) - 2)

\* C38: in a frame encoded under version 3.2 or 3.3 for a command other than
\* DP_QUERY and DP_REFRESH, the encrypted payload is preceded by a 15-byte
\* header that holds the text of the parser's own version followed by zero
\* bytes; for DP_QUERY and DP_REFRESH the payload is the encrypted data alone.
C38_HeaderNamesOwnVersion ==
    (codec.stage = "encoded" /\ codec.version \in {"3.2", "3.3"}) =>
        LET payload == PayloadOf(codec.buffer)
            sealed  == _encryptPre34(ParserKey, stringify(codec.options.data), FALSE)
        IN IF codec.options.commandByte \notin {CommandType.DP_QUERY,
                                                CommandType.DP_REFRESH}
           THEN /\ Head(payload).n = 15
                /\ Head(payload).t = "hdr"
                /\ Head(payload).k = codec.version
                /\ Head(payload).x = 0
                /\ Tail(payload) = sealed
           ELSE payload = sealed

----------------------------------------------------------------------------
----------------------------------------------------------------------------
\* C40: every entry of the pending table is keyed by the sequence number
\* encoded in the frame of the request that registered it.
C40_EntryKeyedByFrameSequence ==
    \A e \in _resolvers : e.key = reqs[e.req].seq

============================================================================
